---- MODULE Spec2Model ----
(***************************************************************************)
(* Retrieval, ranking and context assembly over the offline Wikipedia      *)
(* corpus: WikipediaSearchEngine and WikipediaContextExtractor             *)
(* (src/local/wikipedia_search.py) and EnhancedWikipediaAPI                *)
(* (src/local-version/enhanced_wikipedia_api.py).                          *)
(*                                                                         *)
(* Strings are sequences of one-character strings.  Scores are the         *)
(* program's floats held exactly as integers in units of 1/Scale.          *)
(***************************************************************************)
EXTENDS Integers, Sequences, FiniteSets, TLC

VARIABLES
    pc,               \* position of the running call
    call,             \* the operation called and its arguments
    ret,              \* the value the operation returned
    raised,           \* TRUE when the operation raised to its caller
    logger,           \* records emitted on the module logger
    store,            \* the corpus store's article table
    store_requests,   \* statements executed on the corpus store connection
    store_reply,      \* what the store answered to the last statement
    search_queries,   \* search_with_multiple_queries: the query variants
    next_index,       \* search_with_multiple_queries: position of its loop
    all_results,      \* search_with_multiple_queries: candidates, as inserted
    total_articles_found,  \* search_with_multiple_queries: its counter
    status_log        \* search_with_multiple_queries: the entries appended

vars == <<pc, call, ret, raised, logger, store, store_requests, store_reply,
          search_queries, next_index, all_results, total_articles_found,
          status_log>>

(***************************************************************************)
(* Characters and strings                                                  *)
(***************************************************************************)
UpperLetters ==
    <<"A","B","C","D","E","F","G","H","I","J","K","L","M",
      "N","O","P","Q","R","S","T","U","V","W","X","Y","Z">>

LowerLetters ==
    <<"a","b","c","d","e","f","g","h","i","j","k","l","m",
      "n","o","p","q","r","s","t","u","v","w","x","y","z">>

Digits == {"0","1","2","3","4","5","6","7","8","9"}

Range(f) == {f[i] : i \in DOMAIN f}

UpperSet == Range(UpperLetters)

LowerSet == Range(LowerLetters)

WordCharSet == UpperSet \cup LowerSet \cup Digits \cup {"_"}

IsUpper(c) == c \in UpperSet

IsLower(c) == c \in LowerSet

IsAlpha(c) == IsUpper(c) \/ IsLower(c)

\* \w : a letter, a digit or the underscore
IsWordChar(c) == c \in WordCharSet

\* the characters str.strip() removes
IsSpace(c) == c \in {" ", "\n", "\t"}

ToLowerLetter ==
    [c \in UpperSet |->
        LowerLetters[CHOOSE i \in DOMAIN UpperLetters : UpperLetters[i] = c]]

ToUpperLetter ==
    [c \in LowerSet |->
        UpperLetters[CHOOSE i \in DOMAIN LowerLetters : LowerLetters[i] = c]]

LowerChar(c) == IF IsUpper(c) THEN ToLowerLetter[c] ELSE c

UpperChar(c) == IF IsLower(c) THEN ToUpperLetter[c] ELSE c

\* str.lower()
Lower(s) == [i \in DOMAIN s |-> LowerChar(s[i])]

\* s[:n] for n >= 0
Take(s, n) == SubSeq(s, 1, IF n < Len(s) THEN n ELSE Len(s))

Min(a, b) == IF a < b THEN a ELSE b

Abs(n) == IF n < 0 THEN 0 - n ELSE n

\* str.strip()
Strip(s) ==
    LET keep == {i \in DOMAIN s : ~IsSpace(s[i])}
    IN  IF keep = {} THEN <<>>
        ELSE SubSeq(s, CHOOSE i \in keep : \A j \in 1..(i - 1) : IsSpace(s[j]),
                       CHOOSE i \in keep : \A j \in (i + 1)..Len(s) : IsSpace(s[j]))

\* needle in hay
Contains(hay, needle) ==
    \E i \in 1..(Len(hay) - Len(needle) + 1) :
        SubSeq(hay, i, i + Len(needle) - 1) = needle

RECURSIVE Join(_, _)
\* sep.join(parts)
Join(parts, sep) ==
    IF parts = <<>> THEN <<>>
    ELSE IF Len(parts) = 1 THEN parts[1]
    ELSE parts[1] \o sep \o Join(Tail(parts), sep)

\* \b at the gap before position i (1 <= i <= Len(s) + 1)
WordBoundary(s, i) ==
    LET before == i > 1 /\ IsWordChar(s[i - 1])
        after  == i <= Len(s) /\ IsWordChar(s[i])
    IN  before # after

\* a regex character class, by name
InClass(class, c) ==
    CASE class = "word"  -> IsWordChar(c)
      [] class = "upper" -> IsUpper(c)
      [] class = "lower" -> IsLower(c)
      [] class = "alpha" -> IsAlpha(c)

\* the end of the run of word characters that holds position i
RunEnd(s, i) ==
    CHOOSE j \in i..Len(s) :
        /\ j = Len(s) \/ ~IsWordChar(s[j + 1])
        /\ \A k \in i..j : IsWordChar(s[k])

\* the end of the match of  \b first rest* \b  (at least minLen characters)
\* that starts at i; 0 when there is none.  Both classes hold word characters
\* only, so \b on both sides makes a match a whole run of word characters.
MatchEnd(s, i, first, rest, minLen) ==
    IF ~(WordBoundary(s, i) /\ InClass(first, s[i])) THEN 0
    ELSE LET e == RunEnd(s, i)
         IN  IF /\ \A k \in (i + 1)..e : InClass(rest, s[k])
                /\ e - i + 1 >= minLen
             THEN e ELSE 0

NonEmpty(x) == x # <<>>

\* re.findall of  \b first rest* \b  (at least minLen characters): the matches
\* in the order they start
FindAll(s, first, rest, minLen) ==
    LET at == [i \in DOMAIN s |->
                LET e == MatchEnd(s, i, first, rest, minLen)
                IN  IF e = 0 THEN <<>> ELSE SubSeq(s, i, e)]
    IN  SelectSeq(at, NonEmpty)

\* re.findall(r'\b\w+\b', s)
FindWords(s) == FindAll(s, "word", "word", 1)

(***************************************************************************)
(* Scores: a float x is held as the integer x * Scale.  Scale is a         *)
(* multiple of 1000 and of every word count up to 8, so every product and  *)
(* quotient the scorers form is exact; the factor 120 keeps the mean of up *)
(* to 6 scores exact.                                                      *)
(***************************************************************************)
Scale == 1000 * 840 * 120

\* the float literal  n / 1000
Milli(n) == n * (Scale \div 1000)

(***************************************************************************)
(* WikipediaSearchEngine.prepare_fts_query                                 *)
(***************************************************************************)
Quote == "\""

AndOperator == <<" ", "A", "N", "D", " ">>

MaxAndTerms == 5

prepare_fts_query_quoting(query) ==
    LET words == FindWords(Lower(query))
    IN  IF words = <<>> THEN query
        ELSE IF Len(words) <= 3
        THEN <<Quote>> \o query \o <<Quote>>
        ELSE Join(Take(words, MaxAndTerms), AndOperator)

\* an AND query of all the words
prepare_fts_query_all_terms(query) ==
    LET words == FindWords(Lower(query))
    IN  IF words = <<>> THEN query
        ELSE IF Len(words) = 1 THEN words[1]
        ELSE IF Len(words) <= 3
        THEN <<Quote>> \o Join(words, <<" ">>) \o <<Quote>>
        ELSE Join(words, AndOperator)

prepare_fts_query(query) ==
    LET words == FindWords(Lower(query))
    IN  IF words = <<>> THEN query
        ELSE IF Len(words) = 1 THEN words[1]
        ELSE IF Len(words) <= 3
        THEN <<Quote>> \o Join(words, <<" ">>) \o <<Quote>>
        ELSE Join(Take(words, MaxAndTerms), AndOperator)

(***************************************************************************)
(* The normalizer on its own: Init draws the raw query, Normalize applies  *)
(* prepare_fts_query to it, Renormalize applies it to the value returned.  *)
(***************************************************************************)
MaxQueryLen == 4

QueryAlphabet == {"a", "B", "1", " ", "?", Quote}

StringsUpTo(alphabet, n) == UNION {[1..k -> alphabet] : k \in 0..n}

MaxTokens == 6

TokenChoices == {<<"a">>, <<"B","1">>}

\* queries of up to MaxTokens words, one or several characters apart
TokenQueries ==
    {Join(words, between) :
        words \in UNION {[1..n -> TokenChoices] : n \in 0..MaxTokens},
        between \in {<<" ">>, <<" ","?"," ">>}}

NoLog == <<>>

\* nothing has been asked of the store yet
NoReply == [kind |-> "none"]

\* the locals of search_with_multiple_queries
orchestration ==
    <<search_queries, next_index, all_results, total_articles_found, status_log>>

\* no call of search_with_multiple_queries is running
NotOrchestrating ==
    /\ search_queries = <<>>
    /\ next_index = 0
    /\ all_results = <<>>
    /\ total_articles_found = 0
    /\ status_log = <<>>

InitNormalizer ==
    /\ pc = "start"
    /\ call \in {[op |-> "prepare_fts_query", query |-> q, first |-> q] :
                    q \in StringsUpTo(QueryAlphabet, MaxQueryLen)
                            \cup TokenQueries}
    /\ ret = <<>>
    /\ raised = FALSE
    /\ logger = NoLog
    /\ store = <<>>
    /\ store_requests = <<>>
    /\ store_reply = NoReply
    /\ NotOrchestrating

Normalize ==
    /\ pc = "start"
    /\ call.op = "prepare_fts_query"
    /\ ret' = prepare_fts_query(call.query)
    /\ pc' = "normalized"
    /\ UNCHANGED <<call, raised, logger, store, store_requests, store_reply>>
    /\ UNCHANGED orchestration

Renormalize ==
    /\ pc = "normalized"
    /\ call' = [call EXCEPT !.query = ret]
    /\ ret' = prepare_fts_query(ret)
    /\ pc' = "renormalized"
    /\ UNCHANGED <<raised, logger, store, store_requests, store_reply>>
    /\ UNCHANGED orchestration

NextNormalizer == Normalize \/ Renormalize

SpecNormalizer == InitNormalizer /\ [][NextNormalizer]_vars

\* C10: for every input that tokenizes to exactly one word, normalizing the
\* normalized query again returns the normalized query unchanged.
C10_Idempotent ==
    (pc = "renormalized" /\ Len(FindWords(Lower(call.first))) = 1)
        => ret = call.query

\* a single-word input that is not already its own token has been normalized twice
C10_Witness ==
    /\ pc = "renormalized"
    /\ Len(FindWords(Lower(call.first))) = 1
    /\ call.first # call.query
    /\ ret = call.query

\* C16: prepare_fts_query maps a query by the number of its lowercase word
\* tokens: none, the query unchanged; one, the token; two or three, the
\* tokens one space apart within double quotes; more, the first five tokens
\* joined by ' AND '.
C16_QueryByTokenCount ==
    pc = "normalized"
        => LET tokens == FindWords(Lower(call.query))
           IN  ret = CASE Len(tokens) = 0 -> call.query
                       [] Len(tokens) = 1 -> tokens[1]
                       [] Len(tokens) \in 2..3 ->
                            <<"\"">> \o Join(tokens, <<" ">>) \o <<"\"">>
                       [] OTHER ->
                            Join(SubSeq(tokens, 1, Min(5, Len(tokens))),
                                 <<" ", "A", "N", "D", " ">>)

\* a query of six tokens was cut to the AND of its first five
C16_Witness ==
    /\ pc = "normalized"
    /\ Len(FindWords(Lower(call.query))) = 6
    /\ Len(FindWords(Lower(ret))) = 9
    /\ ret = Join(SubSeq(FindWords(Lower(call.query)), 1, 5),
                  <<" ", "A", "N", "D", " ">>)

(***************************************************************************)
(* WikipediaSearchEngine.calculate_relevance_score                         *)
(* A row carries title, summary (NULL read as '') and rank; rank is <<>>   *)
(* for NULL and <<r>> for the number r.                                    *)
(***************************************************************************)
Overlap_union(a, b, weightMilli) ==
    IF a = {} THEN 0
    ELSE (Milli(weightMilli) * Cardinality(a \cup b)) \div Cardinality(a)

\* len(a & b) / len(a) * weight, 0 when a is empty; weight in thousandths
Overlap(a, b, weightMilli) ==
    IF a = {} THEN 0
    ELSE (Milli(weightMilli) * Cardinality(a \cap b)) \div Cardinality(a)

\* min(fts_rank / 100.0, 0.3)
RankBonus(rank) ==
    LET fts_rank == IF rank # <<>> /\ rank[1] # 0 THEN Abs(rank[1]) ELSE 0
    IN  Min(fts_rank * (Scale \div 100), Milli(300))

\* the value of score just before the final min(score, 1.0)
relevance_signals(query, row) ==
    LET title       == Lower(row.title)
        summary     == Lower(row.summary)
        query_lower == Lower(query)
        query_words == Range(FindWords(query_lower))
        title_words == Range(FindWords(title))
    IN    (IF Contains(title, query_lower) THEN Milli(1000) ELSE 0)
        + Overlap(query_words, title_words, 800)
        + (IF summary # <<>>
           THEN Overlap(query_words, Range(FindWords(summary)), 500)
           ELSE 0)
        + RankBonus(row.rank)

calculate_relevance_score_unclamped(query, row) == relevance_signals(query, row)

calculate_relevance_score(query, row) ==
    Min(relevance_signals(query, row), Milli(1000))

(***************************************************************************)
(* The scorer on its own: Init draws the query and the row, Score applies  *)
(* calculate_relevance_score.                                              *)
(***************************************************************************)
MaxScoredQueryLen == 3

MaxTitleLen == 3

ScorerAlphabet == {"a", "B", " "}

ScorerSummaries == {<<>>, <<"a">>, <<"b", " ", "a">>}

ScorerRanks == {<<>>, <<0>>, <<-20>>, <<-50>>}

InitScorer ==
    /\ pc = "start"
    /\ call \in {[op |-> "calculate_relevance_score", query |-> q,
                  row |-> [title |-> t, summary |-> s, rank |-> r]] :
                    q \in StringsUpTo(ScorerAlphabet, MaxScoredQueryLen),
                    t \in StringsUpTo(ScorerAlphabet, MaxTitleLen),
                    s \in ScorerSummaries,
                    r \in ScorerRanks}
    /\ ret = 0
    /\ raised = FALSE
    /\ logger = NoLog
    /\ store = <<>>
    /\ store_requests = <<>>
    /\ store_reply = NoReply
    /\ NotOrchestrating

Score ==
    /\ pc = "start"
    /\ call.op = "calculate_relevance_score"
    /\ ret' = calculate_relevance_score(call.query, call.row)
    /\ pc' = "scored"
    /\ UNCHANGED <<call, raised, logger, store, store_requests, store_reply>>
    /\ UNCHANGED orchestration

NextScorer == Score

SpecScorer == InitScorer /\ [][NextScorer]_vars

\* the query and the row's title and summary share no word token
NoSharedToken(query, row) ==
    LET query_words == Range(FindWords(Lower(query)))
    IN  /\ query_words \cap Range(FindWords(Lower(row.title))) = {}
        /\ query_words \cap Range(FindWords(Lower(row.summary))) = {}

\* the backend rank is zero or absent
NoBackendSignal(row) == row.rank = <<>> \/ row.rank[1] = 0

\* the lowercased query is a substring of the lowercased title
QueryInTitle(query, row) == Contains(Lower(row.title), Lower(query))

\* C8 as stated: the score is exactly 0 whenever the query shares no word token
\* with the title and the summary and the backend rank is zero or absent.
C8_ZeroWithoutSharedToken ==
    (pc = "scored" /\ NoSharedToken(call.query, call.row)
                   /\ NoBackendSignal(call.row))
        => ret = 0

\* C8 amended: the score is exactly 0 whenever the query shares no word token
\* with the title and the summary, the backend rank is zero or absent, and the
\* lowercased query is not a substring of the lowercased title.
C8_ZeroWithoutAnySignal ==
    (pc = "scored" /\ NoSharedToken(call.query, call.row)
                   /\ NoBackendSignal(call.row)
                   /\ ~QueryInTitle(call.query, call.row))
        => ret = 0

\* a query with a word of its own, scored against a title and a summary with
\* other words and no rank
C8_Witness ==
    /\ pc = "scored"
    /\ FindWords(Lower(call.query)) # <<>>
    /\ FindWords(Lower(call.row.title)) # <<>>
    /\ call.row.summary # <<>>
    /\ NoSharedToken(call.query, call.row)
    /\ NoBackendSignal(call.row)
    /\ ~QueryInTitle(call.query, call.row)
    /\ ret = 0

\* C9: whenever the lowercased query is a substring of the lowercased title,
\* the sum of the signals is at least 1.0 and the score returned is exactly 1.0.
C9_SubstringScoresOne ==
    (pc = "scored" /\ QueryInTitle(call.query, call.row))
        => /\ relevance_signals(call.query, call.row) >= Milli(1000)
           /\ ret = Milli(1000)

\* a substring match whose other signals push the sum above 1.0
C9_Witness ==
    /\ pc = "scored"
    /\ QueryInTitle(call.query, call.row)
    /\ relevance_signals(call.query, call.row) > Milli(1000)
    /\ ret = Milli(1000)

(***************************************************************************)
(* The corpus store.  An article is a row of wikipedia_articles; its       *)
(* categories column is NULL, JSON text, or text json.loads rejects.  A    *)
(* statement is answered with rows or with an error; which rows match a    *)
(* full-text query, in which rank, is the store's business, so every       *)
(* answer the statement allows is possible.                                *)
(***************************************************************************)
NullColumn == [kind |-> "null"]

JsonList(list) == [kind |-> "json", value |-> list]

MalformedJson == [kind |-> "malformed"]

ArticleGo ==
    [id |-> 1, article_id |-> "a1", title |-> <<"G","o">>,
     summary |-> <<"G","o"," ","i","s"," ","a"," ","g","a","m","e">>, content |-> <<"G","o"," "," ","i","s","\n","a"," ","b","o","a","r","d"," ","g","a","m","e">>,
     categories |-> JsonList(<<"Games">>)]

ArticlePoland ==
    [id |-> 2, article_id |-> "a2", title |-> <<"P","o","l","a","n","d">>,
     summary |-> <<"P","o","l","a","n","d"," ","i","s"," ","a"," ","c","o","u","n","t","r","y">>, content |-> <<"P","o","l","a","n","d"," ","c","o","u","n","t","r","y">>,
     categories |-> NullColumn]

ArticleCapital ==
    [id |-> 3, article_id |-> "a3", title |-> <<"C","a","p","i","t","a","l"," ","o","f"," ","P","o","l","a","n","d">>,
     summary |-> <<>>, content |-> <<"W","a","r","s","a","w"," ","i","s"," ","t","h","e"," ","c","a","p","i","t","a","l">>,
     categories |-> JsonList(<<>>)]

ArticleBroken ==
    [id |-> 4, article_id |-> "a4", title |-> <<"H","i","s","t","o","r","y">>,
     summary |-> <<"h","i","s","t","o","r","y"," ","o","f"," ","P","o","l","a","n","d">>, content |-> <<"h","i","s","t","o","r","y">>,
     categories |-> MalformedJson]

Corpus == <<ArticleGo, ArticlePoland, ArticleCapital, ArticleBroken>>

\* the ranks the full-text index reports (bm25: zero or negative)
BackendRanks == {0, -20, -50}

\* a row of the full-text SELECT: the article's columns, fts.rank and snippet()
FtsRow(article, rank) ==
    [id |-> article.id, article_id |-> article.article_id,
     title |-> article.title, summary |-> article.summary,
     content |-> article.content, categories |-> article.categories,
     rank |-> <<rank>>, snippet |-> article.content]

\* ORDER BY fts.rank DESC LIMIT limit: rows of distinct articles, ranks never
\* increasing, at most limit of them
FtsRowLists(articles, ranks, limit) ==
    LET picks == (DOMAIN articles) \X ranks
        lists == UNION {[1..n -> picks] : n \in 0..Min(limit, Len(articles))}
    IN  {[i \in DOMAIN l |-> FtsRow(articles[l[i][1]], l[i][2])] :
            l \in {m \in lists :
                    /\ \A i, j \in DOMAIN m : i < j => m[i][1] # m[j][1]
                    /\ \A i, j \in DOMAIN m : i < j => m[i][2] >= m[j][2]}}

StoreError == [kind |-> "error"]

\* the answers the store may give to a full-text statement
FtsReplies(articles, ranks, limit) ==
    {StoreError} \cup
    {[kind |-> "rows", rows |-> rows] : rows \in FtsRowLists(articles, ranks, limit)}

(***************************************************************************)
(* WikipediaSearchEngine.search                                            *)
(***************************************************************************)
\* re.sub(r'\s+', ' ', s): the first character of every run of whitespace
\* becomes one space, the others go
CollapseSpaces(s) ==
    LET at == [i \in DOMAIN s |->
                IF ~IsSpace(s[i]) THEN <<s[i]>>
                ELSE IF i > 1 /\ IsSpace(s[i - 1]) THEN <<>> ELSE <<" ">>]
        kept == SelectSeq(at, NonEmpty)
    IN  [i \in DOMAIN kept |-> kept[i][1]]

SnippetMaxLen == 200

Ellipsis == <<".",".",".">>

clean_snippet(snippet) ==
    IF snippet = <<>> THEN <<>>
    ELSE LET cleaned == Strip(CollapseSpaces(snippet))
         IN  IF Len(cleaned) > SnippetMaxLen
             THEN Take(cleaned, SnippetMaxLen) \o Ellipsis
             ELSE cleaned

\* json.loads(row['categories']) if row['categories'] else []
ParseCategories(column) ==
    CASE column.kind = "null"      -> [ok |-> TRUE, value |-> <<>>]
      [] column.kind = "json"      -> [ok |-> TRUE, value |-> column.value]
      [] column.kind = "malformed" -> [ok |-> FALSE, value |-> <<>>]

SearchResult(row, relevance_score, snippet) ==
    [id |-> row.id, article_id |-> row.article_id, title |-> row.title,
     summary |-> row.summary, content |-> row.content,
     categories |-> ParseCategories(row.categories).value,
     relevance_score |-> relevance_score, snippet |-> snippet]

\* the loop over the rows, were a score equal to min_score dropped
RECURSIVE ProcessRows_strict(_, _, _)
\* the loop over cursor.fetchall(): the results in row order, or failed when
\* a row that reaches json.loads carries categories it rejects
ProcessRows_strict(query, min_score, rows) ==
    IF rows = <<>> THEN [failed |-> FALSE, results |-> <<>>]
    ELSE LET row == rows[1]
             relevance_score == calculate_relevance_score(query, row)
             rest == ProcessRows_strict(query, min_score, Tail(rows))
         IN  IF relevance_score > min_score
             THEN IF ~ParseCategories(row.categories).ok
                  THEN [failed |-> TRUE, results |-> <<>>]
                  ELSE IF rest.failed THEN rest
                  ELSE [failed |-> FALSE,
                        results |-> <<SearchResult(row, relevance_score,
                                                   clean_snippet(row.snippet))>>
                                    \o rest.results]
             ELSE rest

RECURSIVE ProcessRows(_, _, _)
\* the loop over cursor.fetchall(): the results in row order, or failed when
\* a row that reaches json.loads carries categories it rejects
ProcessRows(query, min_score, rows) ==
    IF rows = <<>> THEN [failed |-> FALSE, results |-> <<>>]
    ELSE LET row == rows[1]
             relevance_score == calculate_relevance_score(query, row)
             rest == ProcessRows(query, min_score, Tail(rows))
         IN  IF relevance_score >= min_score
             THEN IF ~ParseCategories(row.categories).ok
                  THEN [failed |-> TRUE, results |-> <<>>]
                  ELSE IF rest.failed THEN rest
                  ELSE [failed |-> FALSE,
                        results |-> <<SearchResult(row, relevance_score,
                                                   clean_snippet(row.snippet))>>
                                    \o rest.results]
             ELSE rest

\* the statement search executes
FtsStatement(fts_query, limit) ==
    [verb |-> "SELECT",
     sql |-> "SELECT ... WHERE wikipedia_fts MATCH ? ORDER BY fts.rank DESC LIMIT ?",
     params |-> <<fts_query, limit>>]

\* the article table after the store executed a statement: a SELECT leaves
\* it as it is, a DELETE by title removes the rows of that title
StoreAfter(articles, statement) ==
    IF statement.verb = "DELETE"
    THEN LET Kept(article) == article.title # statement.params[1]
         IN  SelectSeq(articles, Kept)
    ELSE articles

RECURSIVE StoreAfterAll(_, _)
StoreAfterAll(articles, statements) ==
    IF statements = <<>> THEN articles
    ELSE StoreAfterAll(StoreAfter(articles, statements[1]), Tail(statements))

\* the store has executed the statements the step has added to
\* store_requests
StoreExecutes ==
    store' = StoreAfterAll(store,
                SubSeq(store_requests', Len(store_requests) + 1,
                       Len(store_requests')))

SearchFailedRecord(query) ==
    [level |-> "error", message |-> "Search failed for query", query |-> query]

\* what one call of search does, given the store's answer to its statement:
\* the list returned, the statements executed, the log records emitted and
\* whether the call raised
search_without_blank_check(query, limit, min_score, reply) ==
    LET fts_query == prepare_fts_query(query)
        processed == IF reply.kind = "rows"
                     THEN ProcessRows(query, min_score, reply.rows)
                     ELSE [failed |-> TRUE, results |-> <<>>]
    IN  [results  |-> processed.results,
         requests |-> <<FtsStatement(fts_query, limit)>>,
         records  |-> IF processed.failed THEN <<SearchFailedRecord(query)>> ELSE <<>>,
         raised   |-> FALSE]

search_silent_failure(query, limit, min_score, reply) ==
    IF Strip(query) = <<>>
    THEN [results |-> <<>>, requests |-> <<>>, records |-> <<>>, raised |-> FALSE]
    ELSE [search_without_blank_check(query, limit, min_score, reply)
            EXCEPT !.records = <<>>]

search(query, limit, min_score, reply) ==
    IF Strip(query) = <<>>
    THEN [results |-> <<>>, requests |-> <<>>, records |-> <<>>, raised |-> FALSE]
    ELSE LET fts_query == prepare_fts_query(query)
             processed == IF reply.kind = "rows"
                          THEN ProcessRows(query, min_score, reply.rows)
                          ELSE [failed |-> TRUE, results |-> <<>>]
         IN  [results  |-> processed.results,
              requests |-> <<FtsStatement(fts_query, limit)>>,
              records  |-> IF processed.failed
                           THEN <<SearchFailedRecord(query)>> ELSE <<>>,
              raised   |-> FALSE]

(***************************************************************************)
(* The search engine on its own: Init draws the arguments of one call of   *)
(* search, Search runs it against an answer of the store.                  *)
(***************************************************************************)
MaxLimit == 2

SearchQueries ==
    {<<>>, <<" "," ">>, <<" ","?">>, <<"G","o">>, <<"P","o","l","a","n","d">>, <<"p","o","l">>, <<"h","i","s","t","o","r","y"," ","o","f"," ","p","o","l","a","n","d">>}

SearchMinScores == {Milli(1), Milli(100), Milli(1000)}

InitSearch ==
    /\ pc = "start"
    /\ call \in {[op |-> "search", query |-> q, limit |-> l, min_score |-> m] :
                    q \in SearchQueries, l \in 0..MaxLimit, m \in SearchMinScores}
    /\ ret = <<>>
    /\ raised = FALSE
    /\ logger = NoLog
    /\ store = Corpus
    /\ store_requests = <<>>
    /\ store_reply = NoReply
    /\ NotOrchestrating

Search ==
    /\ pc = "start"
    /\ call.op = "search"
    /\ \E reply \in FtsReplies(store, BackendRanks, call.limit) :
        LET done == search(call.query, call.limit, call.min_score, reply)
        IN  /\ ret' = done.results
            /\ raised' = done.raised
            /\ logger' = logger \o done.records
            /\ store_requests' = store_requests \o done.requests
            /\ store_reply' = IF done.requests = <<>> THEN store_reply ELSE reply
    /\ pc' = "returned"
    /\ UNCHANGED <<call>>
    /\ StoreExecutes
    /\ UNCHANGED orchestration

NextSearch == Search

SpecSearch == InitSearch /\ [][NextSearch]_vars

\* C4 as stated: the list search returns is ordered by relevance_score from
\* highest to lowest.
C4_SortedByScore ==
    pc = "returned"
        => \A i, j \in DOMAIN ret :
            i < j => ret[i].relevance_score >= ret[j].relevance_score

\* the store failed during the call: the statement raised, or a row that
\* passed min_score could not be turned into a result
StoreFailedDuringSearch ==
    \/ store_reply.kind = "error"
    \/ /\ store_reply.kind = "rows"
       /\ \E i \in DOMAIN store_reply.rows :
            /\ calculate_relevance_score(call.query, store_reply.rows[i])
                    >= call.min_score
            /\ store_reply.rows[i].categories = MalformedJson

\* C6: whenever the store fails during search, search returns the empty list,
\* raises nothing and has emitted an error record for the failed query.
C6_FailureIsEmptyAndLogged ==
    (pc = "returned" /\ StoreFailedDuringSearch)
        => /\ ret = <<>>
           /\ ~raised
           /\ \E i \in DOMAIN logger :
                logger[i].level = "error" /\ logger[i].query = call.query

\* the second row of an answer cannot be processed after the first one was
C6_Witness ==
    /\ pc = "returned"
    /\ store_reply.kind = "rows"
    /\ Len(store_reply.rows) = 2
    /\ store_reply.rows[1].categories # MalformedJson
    /\ calculate_relevance_score(call.query, store_reply.rows[1]) >= call.min_score
    /\ store_reply.rows[2].categories = MalformedJson
    /\ calculate_relevance_score(call.query, store_reply.rows[2]) >= call.min_score
    /\ ret = <<>>
    /\ logger # <<>>

\* C7: for a query that is empty or only whitespace, search returns the empty
\* list, raises nothing and executes no statement on the store.
C7_BlankQueryAsksNothing ==
    (pc = "returned" /\ Strip(call.query) = <<>>)
        => /\ ret = <<>>
           /\ ~raised
           /\ store_requests = <<>>
           /\ store_reply = NoReply

\* a whitespace-only query has been searched with a positive limit
C7_Witness ==
    /\ pc = "returned"
    /\ call.query # <<>>
    /\ Strip(call.query) = <<>>
    /\ call.limit > 0
    /\ ret = <<>>
    /\ store_requests = <<>>

(***************************************************************************)
(* WikipediaContextExtractor                                               *)
(***************************************************************************)
RECURSIVE InsertByScoreDesc(_, _)
\* r placed after every entry whose relevance_score is at least its own
InsertByScoreDesc(sorted, r) ==
    IF sorted = <<>> THEN <<r>>
    ELSE IF sorted[1].relevance_score >= r.relevance_score
    THEN <<sorted[1]>> \o InsertByScoreDesc(Tail(sorted), r)
    ELSE <<r>> \o sorted

RECURSIVE SortByScoreDescFrom(_, _)
SortByScoreDescFrom(sorted, rest) ==
    IF rest = <<>> THEN sorted
    ELSE SortByScoreDescFrom(InsertByScoreDesc(sorted, rest[1]), Tail(rest))

\* sorted(results, key=lambda x: x.relevance_score, reverse=True): stable
SortByScoreDesc(results) == SortByScoreDescFrom(<<>>, results)

select_best_articles(search_results, max_articles) ==
    LET sorted_results == SortByScoreDesc(search_results)
        Good(result) == result.relevance_score >= Milli(200)
    IN  Take(SelectSeq(sorted_results, Good), max_articles)

NoArticlesFoundText == <<"N","o"," ","r","e","l","e","v","a","n","t"," ","W","i","k","i","p","e","d","i","a"," ","a","r","t","i","c","l","e","s"," ","f","o","u","n","d",".">>

NoInformationFoundText == <<"N","o"," ","r","e","l","e","v","a","n","t"," ","i","n","f","o","r","m","a","t","i","o","n"," ","f","o","u","n","d",".">>

ContentFallbackLen == 500

TruncationBuffer == 50

MinTruncatedLen == 100

\* article.summary if article.summary else article.content[:500]
ArticleText(article) ==
    IF article.summary # <<>> THEN article.summary
    ELSE Take(article.content, ContentFallbackLen)

\* f"**{title}**\n{text}\n"
ArticleBlock(title, text) == <<"*","*">> \o title \o <<"*","*">> \o <<"\n">> \o text \o <<"\n">>

RECURSIVE PackArticles(_, _, _)
\* the loop of build_context_text: context_parts
PackArticles(articles, max_length, current_length) ==
    IF articles = <<>> THEN <<>>
    ELSE LET article == articles[1]
             text == ArticleText(article)
             article_context == ArticleBlock(article.title, text)
         IN  IF current_length + Len(article_context) > max_length
             THEN LET remaining_length ==
                        max_length - current_length - TruncationBuffer
                  IN  IF remaining_length > MinTruncatedLen
                      THEN <<ArticleBlock(article.title,
                                Take(text, remaining_length) \o Ellipsis)>>
                      ELSE <<>>
             ELSE <<article_context>>
                  \o PackArticles(Tail(articles), max_length,
                                  current_length + Len(article_context))

Titles(articles) == [i \in DOMAIN articles |-> articles[i].title]

build_context_text(articles, max_length) ==
    IF articles = <<>> THEN NoInformationFoundText
    ELSE LET context_parts == PackArticles(articles, max_length, 0)
             source_list == Join(Titles(articles), <<","," ">>)
         IN  Join(context_parts, <<"\n">>)
             \o <<"\n">> \o <<"*","S","o","u","r","c","e","s",":"," ">> \o source_list \o <<"*">>

RECURSIVE SumScores(_)
SumScores(articles) ==
    IF articles = <<>> THEN 0
    ELSE articles[1].relevance_score + SumScores(Tail(articles))

calculate_confidence_score(articles, query) ==
    IF articles = <<>> THEN 0
    ELSE LET avg_relevance == SumScores(articles) \div Len(articles)
             article_factor == Min((Len(articles) * Scale) \div 3, Scale)
             query_words == Range(FindWords(Lower(query)))
             covered_words ==
                UNION {Range(FindWords(Lower(articles[i].title \o <<" ">>
                                             \o articles[i].summary)))
                         \cap query_words : i \in DOMAIN articles}
             coverage_factor ==
                IF query_words = {} THEN 0
                ELSE (Cardinality(covered_words) * Scale)
                        \div Cardinality(query_words)
             confidence == (avg_relevance * 5) \div 10
                         + (article_factor * 3) \div 10
                         + (coverage_factor * 2) \div 10
         IN  Min(confidence, Scale)

DefaultMinScore == Milli(100)

\* the WikipediaContext of get_context_for_query, from the results of its
\* search and from the articles selected among them
WikipediaContext(query, max_length, search_results, selected_articles) ==
    IF search_results = <<>>
    THEN [query |-> query, sources |-> <<>>,
          context_text |-> NoArticlesFoundText,
          total_articles |-> 0, confidence_score |-> 0]
    ELSE [query |-> query, sources |-> selected_articles,
          context_text |-> build_context_text(selected_articles, max_length),
          total_articles |-> Len(selected_articles),
          confidence_score |->
              calculate_confidence_score(selected_articles, query)]

\* what one call of get_context_for_query does, given the store's answer to
\* the statement of its search: the WikipediaContext returned, the statements
\* executed and the log records emitted.  search_results and
\* selected_articles are bound as values, each computed once, as the
\* assignments of the code compute them.
get_context_for_query(query, max_length, max_articles, reply) ==
    CHOOSE done \in
        {[context  |-> WikipediaContext(query, max_length,
                                        searched.results, selected_articles),
          requests |-> searched.requests,
          records  |-> searched.records,
          raised   |-> FALSE] :
            searched \in {search(query, max_articles * 2, DefaultMinScore, reply)},
            selected_articles \in
                {select_best_articles(
                    search(query, max_articles * 2, DefaultMinScore, reply).results,
                    max_articles)}} : TRUE

(***************************************************************************)
(* The context extractor on its own: Init draws the arguments of one call  *)
(* of get_context_for_query, GetContext runs it against an answer of the   *)
(* store.  The corpus holds texts long enough to be cut.                   *)
(***************************************************************************)
Filler(n) == [i \in 1..n |-> "x"]

ArticleCat ==
    [id |-> 1, article_id |-> "c1", title |-> <<"C","a","t">>,
     summary |-> <<"T","h","e"," ","c","a","t"," ">> \o Filler(180), content |-> <<"c","a","t">>,
     categories |-> NullColumn]

ArticleHistory ==
    [id |-> 2, article_id |-> "c2", title |-> <<"H","i","s","t","o","r","y"," ","o","f"," ","P","o","l","a","n","d">>,
     summary |-> <<>>, content |-> <<"P","o","l","a","n","d"," ">> \o Filler(600),
     categories |-> NullColumn]

ArticleWarsaw ==
    [id |-> 3, article_id |-> "c3", title |-> <<"W","a","r","s","a","w">>,
     summary |-> <<"C","a","p","i","t","a","l"," ","o","f"," ","P","o","l","a","n","d">>, content |-> <<"W","a","r","s","a","w">>,
     categories |-> JsonList(<<"Cities">>)]

LongCorpus == <<ArticleCat, ArticleHistory, ArticleWarsaw>>

ContextQueries ==
    {<<" ">>, <<"P","o","l","a","n","d">>, <<"t","h","e"," ","c","a","t">>, <<"z","e","b","r","a">>, <<"t","h","e"," ","c","a","t"," ","o","f"," ","z","e","b","r","a">>}

ContextMaxLengths == {0, 30, 150, 400, 2000}

MaxArticles == 2

InitContext ==
    /\ pc = "start"
    /\ call \in {[op |-> "get_context_for_query", query |-> q,
                  max_length |-> l, max_articles |-> n] :
                    q \in ContextQueries, l \in ContextMaxLengths,
                    n \in 1..MaxArticles}
    /\ ret = <<>>
    /\ raised = FALSE
    /\ logger = NoLog
    /\ store = LongCorpus
    /\ store_requests = <<>>
    /\ store_reply = NoReply
    /\ NotOrchestrating

GetContext ==
    /\ pc = "start"
    /\ call.op = "get_context_for_query"
    /\ \E reply \in FtsReplies(store, BackendRanks, call.max_articles * 2) :
        \E done \in {get_context_for_query(call.query, call.max_length,
                                            call.max_articles, reply)} :
            /\ ret' = done.context
            /\ raised' = done.raised
            /\ logger' = logger \o done.records
            /\ store_requests' = store_requests \o done.requests
            /\ store_reply' = IF done.requests = <<>> THEN store_reply ELSE reply
    /\ pc' = "returned"
    /\ UNCHANGED <<call>>
    /\ StoreExecutes
    /\ UNCHANGED orchestration

NextContext == GetContext

SpecContext == InitContext /\ [][NextContext]_vars

\* C1 as stated: the context_text get_context_for_query returns has at most
\* max_length characters.
C1_ContextWithinBudget ==
    pc = "returned" => Len(ret.context_text) <= call.max_length

NoSourceSelected == pc = "returned" /\ ret.sources = <<>>

\* C11 as stated: whenever get_context_for_query ends with no source
\* selected, it returns without raising a result with confidence_score 0 and
\* with the one 'no information found' text as context_text, the same text
\* whether the search found nothing or every hit was below the threshold.
C11_OneSentinelWhenNoSource ==
    NoSourceSelected
        => /\ ~raised
           /\ ret.confidence_score = 0
           /\ ret.context_text = NoInformationFoundText

(***************************************************************************)
(* EnhancedWikipediaAPI: query variants, key terms, article review         *)
(***************************************************************************)
\* re.findall(r'\b[A-Z][a-z]+\b|\b[a-z]{4,}\b', s)
FindImportantWords(s) ==
    LET at == [i \in DOMAIN s |->
                LET capitalized == MatchEnd(s, i, "upper", "lower", 2)
                    lowercase   == MatchEnd(s, i, "lower", "lower", 4)
                IN  IF capitalized # 0 THEN SubSeq(s, i, capitalized)
                    ELSE IF lowercase # 0 THEN SubSeq(s, i, lowercase)
                    ELSE <<>>]
    IN  SelectSeq(at, NonEmpty)

MaxWordVariants == 3

MaxVariants == 5

\* the dedup of generate_search_queries comparing the queries as written
UniqueQueries_as_written(queries, seen) ==
    IF queries = <<>> THEN <<>>
    ELSE [k \in 1..Cardinality({i \in DOMAIN queries :
                    \A j \in 1..(i - 1) : queries[j] # queries[i]}) |->
            queries[CHOOSE i \in DOMAIN queries :
                /\ \A j \in 1..(i - 1) : queries[j] # queries[i]
                /\ Cardinality({h \in 1..i :
                        \A j \in 1..(h - 1) : queries[j] # queries[h]}) = k]]

RECURSIVE UniqueQueries(_, _)
\* the queries whose lowercase form was not seen before, in order
UniqueQueries(queries, seen) ==
    IF queries = <<>> THEN <<>>
    ELSE IF Lower(queries[1]) \in seen
    THEN UniqueQueries(Tail(queries), seen)
    ELSE <<queries[1]>>
         \o UniqueQueries(Tail(queries), seen \cup {Lower(queries[1])})

\* queries, as lines 65-80 fill it: before the duplicates are removed
candidate_queries(question) ==
    LET words == FindImportantWords(question)
        LongWord(word) == Len(word) > 3
    IN  <<Strip(question)>>
        \o SelectSeq(Take(words, MaxWordVariants), LongWord)
        \o (IF Len(words) >= 2
            THEN <<words[1] \o <<" ">> \o words[2]>> ELSE <<>>)

generate_search_queries(question) ==
    Take(UniqueQueries(candidate_queries(question), {}), MaxVariants)

QuestionWords ==
    {<<"w","h","a","t">>, <<"i","s">>, <<"a","r","e">>, <<"h","o","w">>, <<"w","h","y">>, <<"w","h","e","n">>, <<"w","h","e","r","e">>, <<"w","h","o">>, <<"w","h","i","c","h">>, <<"t","h","e">>, <<"a">>, <<"a","n">>}

\* str.capitalize()
Capitalize(word) ==
    IF word = <<>> THEN <<>> ELSE <<UpperChar(word[1])>> \o Lower(Tail(word))

extract_key_terms(question) ==
    LET words == FindAll(Lower(question), "alpha", "alpha", 1)
        KeyWord(word) == word \notin QuestionWords /\ Len(word) > 2
        terms == SelectSeq(words, KeyWord)
    IN  [i \in DOMAIN terms |-> Capitalize(terms[i])]

\* the value of score just before the final min(score, 1.0)
review_signals(question, article) ==
    LET question_lower == Lower(question)
        title_lower    == Lower(article.title)
        summary_lower  == Lower(article.summary)
        question_words == Range(FindAll(question_lower, "word", "word", 3))
        title_words    == Range(FindAll(title_lower, "word", "word", 3))
        summary_words  == Range(FindAll(summary_lower, "word", "word", 3))
        Ratio(common, weight) ==
            IF common = {} THEN 0
            ELSE (Cardinality(common) * Milli(weight))
                    \div Cardinality(question_words)
        long_in_title ==
            {word \in question_words :
                Len(word) > 4 /\ Contains(title_lower, word)}
        long_in_summary ==
            {word \in question_words :
                Len(word) > 4 /\ Contains(summary_lower, word)}
    IN    Ratio(question_words \cap title_words, 800)
        + (IF summary_lower # <<>>
           THEN Ratio(question_words \cap summary_words, 400) ELSE 0)
        + Cardinality(long_in_title) * Milli(300)
        + Cardinality(long_in_summary) * Milli(100)
        + (IF \E word \in question_words :
                Len(word) > 3 /\ Contains(title_lower, word)
           THEN Milli(200) ELSE 0)

\* the review score without its final min(score, 1.0)
assess_article_relevance_unclamped(question, article) ==
    review_signals(question, article)

assess_article_relevance(question, article) ==
    Min(review_signals(question, article), Scale)

(***************************************************************************)
(* EnhancedWikipediaAPI.search_with_multiple_queries, step by step: one    *)
(* step for every statement it has executed on the corpus store            *)
(***************************************************************************)
VariantMinScore == Milli(1)

ExactMatchScore == Milli(1000)

\* a key-term match scored like an exact match
KeyTermScore_as_exact_match == ExactMatchScore

KeyTermScore == Milli(900)

\* a threshold every review score exceeds
ReviewThreshold_below_zero == 0 - Milli(50)

ReviewThreshold == Milli(50)

BackstopSnippetLen == 200

EnhancedContextLimit == 5

\* a lookup that deletes what it looks for
TitleStatement_deleting(title) ==
    [verb |-> "DELETE",
     sql |-> "DELETE FROM wikipedia_articles WHERE title = ?",
     params |-> <<title>>]

TitleStatement(title) ==
    [verb |-> "SELECT",
     sql |-> "SELECT * FROM wikipedia_articles WHERE title = ? LIMIT 1",
     params |-> <<title>>]

\* the answers the store may give to a title lookup: an error, no row, or one
\* of the articles that carry the title
TitleReplies(articles, title) ==
    LET matching == {i \in DOMAIN articles : articles[i].title = title}
    IN  {StoreError} \cup
        (IF matching = {} THEN {[kind |-> "rows", rows |-> <<>>]}
         ELSE {[kind |-> "rows", rows |-> <<articles[i]>>] : i \in matching})

\* the SearchResult a backstop builds from a row of wikipedia_articles
BackstopResult(row, relevance_score) ==
    [id |-> row.id, article_id |-> row.article_id, title |-> row.title,
     summary |-> row.summary, content |-> row.content,
     categories |-> ParseCategories(row.categories).value,
     relevance_score |-> relevance_score,
     snippet |-> Take(row.summary, BackstopSnippetLen)]

\* f"{relevance:.2f}": the score in hundredths
TwoDecimals(score) == (score + Scale \div 200) \div (Scale \div 100)

\* an entry that leaves out what it is about
StatusEntry_bare(text, args) == [text |-> text, args |-> <<>>]

StatusEntry(text, args) == [text |-> text, args |-> args]

ArticleIds(results) == {results[i].article_id : i \in DOMAIN results}

\* a merge that takes every result, whatever is held already
MergeResults_keeping_all(merged, results) == merged \o results

RECURSIVE MergeResults_latest_wins(_, _)
\* a merge in which a later hit replaces the entry held for its article
MergeResults_latest_wins(merged, results) ==
    IF results = <<>> THEN merged
    ELSE MergeResults_latest_wins(
            IF results[1].article_id \in ArticleIds(merged)
            THEN [i \in DOMAIN merged |->
                    IF merged[i].article_id = results[1].article_id
                    THEN results[1] ELSE merged[i]]
            ELSE Append(merged, results[1]),
            Tail(results))

RECURSIVE MergeResults(_, _)
\* if result.article_id not in all_results: all_results[...] = result
MergeResults(merged, results) ==
    IF results = <<>> THEN merged
    ELSE MergeResults(
            IF results[1].article_id \in ArticleIds(merged) THEN merged
            ELSE Append(merged, results[1]),
            Tail(results))

\* all_results[result.article_id] = result: an existing key keeps its place
PutResult(merged, result) ==
    IF result.article_id \in ArticleIds(merged)
    THEN [i \in DOMAIN merged |->
            IF merged[i].article_id = result.article_id THEN result
            ELSE merged[i]]
    ELSE Append(merged, result)

RECURSIVE ReviewArticles(_, _, _, _)
\* the review loop from its i-th article on: the results kept and the entries
\* logged
ReviewArticles(question, articles, i, shown) ==
    IF i > Len(articles) THEN [results |-> <<>>, log |-> <<>>]
    ELSE LET result == articles[i]
             relevance == assess_article_relevance(question, result)
             rest == ReviewArticles(question, articles, i + 1, shown)
             reviewing == StatusEntry("Reviewing article", <<i, shown, result.title>>)
         IN  IF relevance > ReviewThreshold
             THEN [results |->
                     <<[result EXCEPT !.relevance_score = relevance]>>
                     \o rest.results,
                   log |->
                     <<reviewing,
                       StatusEntry("Article deemed relevant",
                                   <<result.title, TwoDecimals(relevance)>>)>>
                     \o rest.log]
             ELSE [results |-> rest.results,
                   log |->
                     <<reviewing,
                       StatusEntry("Article not relevant to question",
                                   <<result.title>>)>>
                     \o rest.log]

result_dict(result) ==
    [id |-> result.id, article_id |-> result.article_id,
     title |-> result.title, summary |-> result.summary,
     snippet |-> result.snippet, categories |-> result.categories,
     relevance_score |-> result.relevance_score]

\* lines 199-241: what search_with_multiple_queries returns once the variant
\* searches and the backstops are done
reviewed_search_result(question, limit, queries, merged, log, found) ==
    CHOOSE result \in
        {[results |-> [i \in DOMAIN reviewed.results |->
                        result_dict(reviewed.results[i])],
          total |-> Len(reviewed.results),
          question |-> question,
          search_queries |-> queries,
          status_log |-> log \o reviewed.log
                         \o <<StatusEntry("Final selection",
                                          <<Len(reviewed.results)>>)>>,
          total_articles_searched |-> found] :
            reviewed \in
                {ReviewArticles(question,
                                Take(SortByScoreDesc(merged), limit), 1,
                                Min(Len(merged), limit))}} : TRUE

source_dict(article) ==
    [id |-> article.id, article_id |-> article.article_id,
     title |-> article.title, summary |-> article.summary,
     relevance_score |-> article.relevance_score]

RECURSIVE CollectContext(_, _, _, _)
\* the loop of get_enhanced_context: context_parts and sources
CollectContext(articles, max_length, context_parts, sources) ==
    IF articles = <<>>
    THEN [context_parts |-> context_parts, sources |-> sources]
    ELSE LET article == articles[1]
         IN  IF Len(Join(context_parts, <<" ">>)) < max_length
             THEN CollectContext(
                    Tail(articles), max_length,
                    IF article.summary # <<>>
                    THEN Append(context_parts,
                                <<"F","r","o","m"," ">> \o article.title \o <<":"," ">>
                                \o article.summary)
                    ELSE context_parts,
                    Append(sources, source_dict(article)))
             ELSE CollectContext(Tail(articles), max_length,
                                 context_parts, sources)

\* get_enhanced_context, were the context returned whole
get_enhanced_context_uncut(question, max_length, search_result) ==
    CHOOSE context \in
        {[context |-> Join(built.context_parts, <<" ">>),
          sources |-> built.sources,
          confidence |->
              IF built.sources = <<>> THEN 0
              ELSE Min(((SumScores(built.sources) \div Len(built.sources))
                            * 12) \div 10, Scale),
          total_articles |-> Len(built.sources),
          question |-> question,
          search_queries |-> search_result.search_queries,
          status_log |-> search_result.status_log] :
            built \in {CollectContext(search_result.results, max_length,
                                      <<>>, <<>>)}} : TRUE

\* lines 307-343: what get_enhanced_context returns for a search_result
\* that carries no error
get_enhanced_context(question, max_length, search_result) ==
    CHOOSE context \in
        {[context |-> Take(Join(built.context_parts, <<" ">>), max_length),
          sources |-> built.sources,
          confidence |->
              IF built.sources = <<>> THEN 0
              ELSE Min(((SumScores(built.sources) \div Len(built.sources))
                            * 12) \div 10, Scale),
          total_articles |-> Len(built.sources),
          question |-> question,
          search_queries |-> search_result.search_queries,
          status_log |-> search_result.status_log] :
            built \in {CollectContext(search_result.results, max_length,
                                      <<>>, <<>>)}} : TRUE

ArticleHouseCat ==
    [id |-> 1, article_id |-> "s1", title |-> <<"C","a","t">>,
     summary |-> <<"T","h","e"," ","c","a","t"," ","i","s"," ","a"," ","s","m","a","l","l"," ","a","n","i","m","a","l">>, content |-> <<"c","a","t"," ","c","a","t"," ","c","a","t">>,
     categories |-> JsonList(<<"Animals">>)]

ArticleWildCat ==
    [id |-> 2, article_id |-> "s2", title |-> <<"W","i","l","d"," ","c","a","t">>,
     summary |-> <<"A"," ","f","e","l","i","n","e"," ","o","f"," ","t","h","e"," ","f","o","r","e","s","t">>,
     content |-> <<"T","h","e"," ","w","i","l","d"," ","c","a","t"," ","h","u","n","t","s"," ","a","t"," ","n","i","g","h","t">>,
     categories |-> NullColumn]

SmallCorpus == <<ArticleHouseCat, ArticleWildCat>>

\* the same store with a categories column that is not JSON
DamagedCorpus ==
    <<[ArticleHouseCat EXCEPT !.categories = MalformedJson], ArticleWildCat>>

Corpora == {SmallCorpus, DamagedCorpus}

OrchestratorRanks == {0, -20}

MaxResultLimit == 2

Questions == {<<" "," ">>, <<"C","a","t">>, <<" ","C","a","t">>, <<"c","a","t">>, <<"w","i","l","d"," ","c","a","t">>, <<"n","i","g","h","t">>}

ContextQuestions == {<<"C","a","t">>, <<"w","i","l","d"," ","c","a","t">>}

EnhancedMaxLengths == {0, 20, 2000}

\* the limit of the running search_with_multiple_queries
limit ==
    IF call.op = "get_enhanced_context" THEN EnhancedContextLimit
    ELSE call.limit

\* lines 112-118
GenerateQueries ==
    /\ pc = "start"
    /\ call.op \in {"search_with_multiple_queries", "get_enhanced_context"}
    /\ \E queries \in {generate_search_queries(call.question)} :
        /\ search_queries' = queries
        /\ status_log' = <<StatusEntry("Generated search queries",
                                       <<Len(queries)>>)>>
    /\ all_results' = <<>>
    /\ total_articles_found' = 0
    /\ next_index' = 1
    /\ pc' = "searching"
    /\ UNCHANGED <<call, ret, raised, logger, store, store_requests, store_reply>>

\* lines 121-133, one turn of the loop
SearchVariant ==
    /\ pc = "searching"
    /\ next_index <= Len(search_queries)
    /\ \E reply \in FtsReplies(store, OrchestratorRanks, limit) :
        \E query \in {search_queries[next_index]} :
        \E done \in {search(query, limit, VariantMinScore, reply)} :
        \E merged \in {MergeResults(all_results, done.results)} :
            /\ status_log' = status_log \o
                    <<StatusEntry("Searching Wikipedia with query", <<query>>),
                      StatusEntry("Found articles for query",
                                  <<Len(done.results), query>>)>>
            /\ all_results' = merged
            /\ total_articles_found' =
                    total_articles_found + Len(merged) - Len(all_results)
            /\ logger' = logger \o done.records
            /\ store_requests' = store_requests \o done.requests
            /\ store_reply' = IF done.requests = <<>> THEN store_reply ELSE reply
    /\ next_index' = next_index + 1
    /\ UNCHANGED <<pc, call, ret, raised, search_queries>>
    /\ StoreExecutes

\* lines 139-167
ExactTitleBackstop ==
    /\ pc = "searching"
    /\ next_index > Len(search_queries)
    /\ \E title \in {Strip(call.question)} :
       \E reply \in TitleReplies(store, title) :
        /\ store_requests' = Append(store_requests, TitleStatement(title))
        /\ store_reply' = reply
        /\ IF reply.kind = "error"
           THEN /\ status_log' = Append(status_log,
                        StatusEntry("Exact match search failed", <<>>))
                /\ UNCHANGED <<all_results, total_articles_found>>
           ELSE IF reply.rows = <<>>
           THEN UNCHANGED <<status_log, all_results, total_articles_found>>
           ELSE IF ~ParseCategories(reply.rows[1].categories).ok
           THEN /\ status_log' = status_log \o
                        <<StatusEntry("Found exact title match",
                                      <<reply.rows[1].title>>),
                          StatusEntry("Exact match search failed", <<>>)>>
                /\ UNCHANGED <<all_results, total_articles_found>>
           ELSE /\ status_log' = Append(status_log,
                        StatusEntry("Found exact title match",
                                    <<reply.rows[1].title>>))
                /\ all_results' = PutResult(all_results,
                        BackstopResult(reply.rows[1], ExactMatchScore))
                /\ total_articles_found' = total_articles_found + 1
    /\ pc' = "key_terms"
    /\ next_index' = 1
    /\ UNCHANGED <<call, ret, raised, logger, search_queries>>
    /\ StoreExecutes

\* the key-term loop, were it to stop at the first lookup the store fails on
KeyTermBackstop_stopping ==
    /\ pc = "key_terms"
    /\ next_index <= Len(extract_key_terms(call.question))
    /\ \E term \in {extract_key_terms(call.question)[next_index]} :
       \E reply \in TitleReplies(store, term) :
        /\ store_requests' = Append(store_requests, TitleStatement(term))
        /\ store_reply' = reply
        /\ IF reply.kind = "error"
           THEN /\ status_log' = Append(status_log,
                        StatusEntry("Key term search failed", <<term>>))
                /\ UNCHANGED <<all_results, total_articles_found>>
           ELSE IF reply.rows = <<>>
                   \/ reply.rows[1].article_id \in ArticleIds(all_results)
           THEN UNCHANGED <<status_log, all_results, total_articles_found>>
           ELSE IF ~ParseCategories(reply.rows[1].categories).ok
           THEN /\ status_log' = status_log \o
                        <<StatusEntry("Found key term match",
                                      <<reply.rows[1].title>>),
                          StatusEntry("Key term search failed", <<term>>)>>
                /\ UNCHANGED <<all_results, total_articles_found>>
           ELSE /\ status_log' = Append(status_log,
                        StatusEntry("Found key term match",
                                    <<reply.rows[1].title>>))
                /\ all_results' = Append(all_results,
                        BackstopResult(reply.rows[1], KeyTermScore))
                /\ total_articles_found' = total_articles_found + 1
    /\ next_index' = IF store_reply'.kind = "error"
                     THEN Len(extract_key_terms(call.question)) + 1
                     ELSE next_index + 1
    /\ UNCHANGED <<pc, call, ret, raised, logger, search_queries>>
    /\ StoreExecutes

\* lines 170-197, one turn of the loop
KeyTermBackstop ==
    /\ pc = "key_terms"
    /\ next_index <= Len(extract_key_terms(call.question))
    /\ \E term \in {extract_key_terms(call.question)[next_index]} :
       \E reply \in TitleReplies(store, term) :
        /\ store_requests' = Append(store_requests, TitleStatement(term))
        /\ store_reply' = reply
        /\ IF reply.kind = "error"
           THEN /\ status_log' = Append(status_log,
                        StatusEntry("Key term search failed", <<term>>))
                /\ UNCHANGED <<all_results, total_articles_found>>
           ELSE IF reply.rows = <<>>
                   \/ reply.rows[1].article_id \in ArticleIds(all_results)
           THEN UNCHANGED <<status_log, all_results, total_articles_found>>
           ELSE IF ~ParseCategories(reply.rows[1].categories).ok
           THEN /\ status_log' = status_log \o
                        <<StatusEntry("Found key term match",
                                      <<reply.rows[1].title>>),
                          StatusEntry("Key term search failed", <<term>>)>>
                /\ UNCHANGED <<all_results, total_articles_found>>
           ELSE /\ status_log' = Append(status_log,
                        StatusEntry("Found key term match",
                                    <<reply.rows[1].title>>))
                /\ all_results' = Append(all_results,
                        BackstopResult(reply.rows[1], KeyTermScore))
                /\ total_articles_found' = total_articles_found + 1
    /\ next_index' = next_index + 1
    /\ UNCHANGED <<pc, call, ret, raised, logger, search_queries>>
    /\ StoreExecutes

\* lines 199-241
ReviewAndReturn ==
    /\ pc = "key_terms"
    /\ next_index > Len(extract_key_terms(call.question))
    /\ call.op = "search_with_multiple_queries"
    /\ \E result \in {reviewed_search_result(call.question, limit,
                        search_queries, all_results, status_log,
                        total_articles_found)} :
        /\ ret' = result
        /\ status_log' = result.status_log
    /\ pc' = "returned"
    /\ UNCHANGED <<call, raised, logger, store, store_requests, store_reply,
                   search_queries, next_index, all_results,
                   total_articles_found>>

\* get_enhanced_context, from the return of its search_with_multiple_queries
\* on: lines 298-343
ReviewAndBuildContext ==
    /\ pc = "key_terms"
    /\ next_index > Len(extract_key_terms(call.question))
    /\ call.op = "get_enhanced_context"
    /\ \E result \in {reviewed_search_result(call.question, limit,
                        search_queries, all_results, status_log,
                        total_articles_found)} :
        /\ ret' = get_enhanced_context(call.question, call.max_length, result)
        /\ status_log' = result.status_log
    /\ pc' = "returned"
    /\ UNCHANGED <<call, raised, logger, store, store_requests, store_reply,
                   search_queries, next_index, all_results,
                   total_articles_found>>

(***************************************************************************)
(* The orchestrator: Init draws the arguments of one call of               *)
(* search_with_multiple_queries or of get_enhanced_context.                *)
(***************************************************************************)
(* The handlers of the caller-facing entry points, and                     *)
(* WikipediaAPI.search and WikipediaAPI.get_context                        *)
(* (src/local-version/wikipedia_api.py)                                    *)
(***************************************************************************)
Running == pc \in {"start", "searching", "key_terms"}

\* except Exception, re-raising instead of returning a record
SearchFailed_reraising ==
    /\ Running
    /\ call.op = "search_with_multiple_queries"
    /\ raised' = TRUE
    /\ pc' = "returned"
    /\ ret' = <<>>
    /\ UNCHANGED <<call, logger, store, store_requests, store_reply>>
    /\ UNCHANGED orchestration

\* lines 243-248: an exception raised anywhere in the body of
\* search_with_multiple_queries reaches its handler
SearchFailed ==
    /\ Running
    /\ call.op = "search_with_multiple_queries"
    /\ ret' = [results |-> <<>>, error |-> "exception",
               status_log |-> <<StatusEntry("Search failed", <<>>)>>]
    /\ pc' = "returned"
    /\ UNCHANGED <<call, raised, logger, store, store_requests, store_reply>>
    /\ UNCHANGED orchestration

\* get_enhanced_context when its search_with_multiple_queries returned an
\* error (lines 298-305) or when its own body raised (lines 345-352)
ContextFailed ==
    /\ Running
    /\ call.op = "get_enhanced_context"
    /\ \E text \in {"Search failed", "Context extraction failed"} :
        ret' = [context |-> <<>>, sources |-> <<>>, confidence |-> 0,
                error |-> "exception",
                status_log |-> <<StatusEntry(text, <<>>)>>]
    /\ pc' = "returned"
    /\ UNCHANGED <<call, raised, logger, store, store_requests, store_reply>>
    /\ UNCHANGED orchestration

DefaultMaxArticles == 5

\* WikipediaAPI.search(params): failure is an exception raised in its body
\* after the engine's search returned
ApiSearch ==
    /\ pc = "start"
    /\ call.op = "WikipediaAPI.search"
    /\ IF call.params.query = <<>>
       THEN /\ ret' = [results |-> <<>>, error |-> "Empty query"]
            /\ UNCHANGED <<logger, store_requests, store_reply>>
       ELSE \E reply \in FtsReplies(store, OrchestratorRanks, call.params.limit) :
            \E done \in {search(call.params.query, call.params.limit,
                                DefaultMinScore, reply)} :
            \E failure \in BOOLEAN :
                /\ ret' = IF failure \/ done.raised
                          THEN [results |-> <<>>, error |-> "exception"]
                          ELSE [results |-> [i \in DOMAIN done.results |->
                                                result_dict(done.results[i])],
                                total |-> Len(done.results),
                                query |-> call.params.query]
                /\ logger' = logger \o done.records
                /\ store_requests' = store_requests \o done.requests
                /\ store_reply' = IF done.requests = <<>> THEN store_reply
                                  ELSE reply
    /\ pc' = "returned"
    /\ UNCHANGED <<call, raised>>
    /\ StoreExecutes
    /\ UNCHANGED orchestration

\* WikipediaAPI.get_context(params)
ApiGetContext ==
    /\ pc = "start"
    /\ call.op = "WikipediaAPI.get_context"
    /\ IF call.params.query = <<>>
       THEN /\ ret' = [context |-> <<>>, sources |-> <<>>, confidence |-> 0,
                       error |-> "Empty query"]
            /\ UNCHANGED <<logger, store_requests, store_reply>>
       ELSE \E reply \in FtsReplies(store, OrchestratorRanks,
                                    DefaultMaxArticles * 2) :
            \E done \in {get_context_for_query(call.params.query,
                            call.params.maxLength, DefaultMaxArticles, reply)} :
            \E failure \in BOOLEAN :
                /\ ret' = IF failure \/ done.raised
                          THEN [context |-> <<>>, sources |-> <<>>,
                                confidence |-> 0, error |-> "exception"]
                          ELSE [context |-> done.context.context_text,
                                sources |->
                                    [i \in DOMAIN done.context.sources |->
                                        source_dict(done.context.sources[i])],
                                confidence |-> done.context.confidence_score,
                                total_articles |-> done.context.total_articles,
                                query |-> call.params.query]
                /\ logger' = logger \o done.records
                /\ store_requests' = store_requests \o done.requests
                /\ store_reply' = IF done.requests = <<>> THEN store_reply
                                  ELSE reply
    /\ pc' = "returned"
    /\ UNCHANGED <<call, raised>>
    /\ StoreExecutes
    /\ UNCHANGED orchestration

ApiQueries == {<<>>, <<" "," ">>, <<"C","a","t">>, <<"w","i","l","d"," ","c","a","t">>}

(***************************************************************************)
Calls ==
    {[op |-> "search_with_multiple_queries", question |-> q, limit |-> l] :
        q \in Questions, l \in 1..MaxResultLimit}
    \cup
    {[op |-> "get_enhanced_context", question |-> q, max_length |-> l] :
        q \in ContextQuestions, l \in EnhancedMaxLengths}
    \cup
    {[op |-> "WikipediaAPI.search", params |-> [query |-> q, limit |-> l]] :
        q \in ApiQueries, l \in 1..MaxResultLimit}
    \cup
    {[op |-> "WikipediaAPI.get_context",
      params |-> [query |-> q, maxLength |-> l]] :
        q \in ApiQueries, l \in EnhancedMaxLengths}

Init ==
    /\ pc = "start"
    /\ call \in Calls
    /\ ret = <<>>
    /\ raised = FALSE
    /\ logger = NoLog
    /\ store \in Corpora
    /\ store_requests = <<>>
    /\ store_reply = NoReply
    /\ NotOrchestrating

\* the caller makes its next call, on the store as the last call left it
NextCall ==
    /\ pc = "returned"
    /\ pc' = "start"
    /\ call' \in Calls
    /\ ret' = <<>>
    /\ raised' = FALSE
    /\ logger' = NoLog
    /\ store_requests' = <<>>
    /\ store_reply' = NoReply
    /\ search_queries' = <<>>
    /\ next_index' = 0
    /\ all_results' = <<>>
    /\ total_articles_found' = 0
    /\ status_log' = <<>>
    /\ UNCHANGED store

Next ==
    \/ GenerateQueries
    \/ SearchVariant
    \/ ExactTitleBackstop
    \/ KeyTermBackstop
    \/ ReviewAndReturn
    \/ ReviewAndBuildContext
    \/ SearchFailed
    \/ ContextFailed
    \/ ApiSearch
    \/ ApiGetContext
    \/ NextCall

Spec == Init /\ [][Next]_vars

(***************************************************************************)
(* Properties of search_with_multiple_queries and get_enhanced_context     *)
(***************************************************************************)
SearchReturned == pc = "returned" /\ call.op = "search_with_multiple_queries"

ContextReturned == pc = "returned" /\ call.op = "get_enhanced_context"

Logged(text) == \E k \in DOMAIN status_log : status_log[k].text = text

\* C2 as stated, and even granting that the exact-title lookup itself found
\* the article: when the trimmed question is the title of an article, the
\* results returned include that article with relevance_score 1.0.
C2_ExactTitleReturnedWithTopScore ==
    (SearchReturned /\ Logged("Found exact title match"))
        => \E i \in DOMAIN ret.results :
            /\ ret.results[i].title = Strip(call.question)
            /\ ret.results[i].relevance_score = Scale

DistinctArticleIds(entries) ==
    \A i, j \in DOMAIN entries :
        i # j => entries[i].article_id # entries[j].article_id

\* C3: no two entries of the results returned by
\* search_with_multiple_queries, and no two entries of the sources returned
\* by get_enhanced_context, carry the same article_id.
C3_NoDuplicateArticleId ==
    /\ SearchReturned => DistinctArticleIds(ret.results)
    /\ ContextReturned => DistinctArticleIds(ret.sources)

\* an article was hit by the variant searches and by the exact-title
\* backstop (counted twice, held once), and two articles are returned
C3_Witness ==
    /\ SearchReturned
    /\ Logged("Found exact title match")
    /\ total_articles_found > Len(all_results)
    /\ Len(ret.results) = 2

\* C5 as stated: the results returned are ordered from highest to lowest by
\* the relevance_score each entry carries.
C5_ResultsOrderedByScore ==
    SearchReturned
        => \A i, j \in DOMAIN ret.results :
            i < j => ret.results[i].relevance_score
                        >= ret.results[j].relevance_score

CountLogged(text) ==
    Cardinality({k \in DOMAIN status_log : status_log[k].text = text})

\* the statements on which the store failed: search logs each on the module
\* logger, the backstops each in the status log
FailedAccesses ==
    Len(logger) + CountLogged("Exact match search failed")
                + CountLogged("Key term search failed")

ReturnedError == "error" \in DOMAIN ret

\* empty results, or empty sources and confidence 0
NothingReturned ==
    IF "results" \in DOMAIN ret THEN ret.results = <<>>
    ELSE ret.sources = <<>> /\ ret.confidence = 0

MaxQuestionWords == 3

WordChoices == {<<"C","a","t">>, <<"C","a","t","s">>, <<"c","a","t","s">>, <<"W","i","l","d">>, <<"D","o","g","s">>, <<"o","f">>}

WordLists == UNION {[1..n -> WordChoices] : n \in 0..MaxQuestionWords}

\* the question that reads the words with one space between them, with or
\* without a space around it
QuestionsOfWords ==
    {pad \o Join(words, <<" ">>) \o pad :
        words \in WordLists, pad \in {<<>>, <<" ">>}}

InitVariants ==
    /\ pc = "start"
    /\ call \in {[op |-> op, question |-> q] :
                    op \in {"generate_search_queries", "extract_key_terms"},
                    q \in QuestionsOfWords}
    /\ ret = <<>>
    /\ raised = FALSE
    /\ logger = NoLog
    /\ store = <<>>
    /\ store_requests = <<>>
    /\ store_reply = NoReply
    /\ NotOrchestrating

Generate ==
    /\ pc = "start"
    /\ call.op = "generate_search_queries"
    /\ ret' = generate_search_queries(call.question)
    /\ pc' = "returned"
    /\ UNCHANGED <<call, raised, logger, store, store_requests, store_reply>>
    /\ UNCHANGED orchestration

ExtractTerms ==
    /\ pc = "start"
    /\ call.op = "extract_key_terms"
    /\ ret' = extract_key_terms(call.question)
    /\ pc' = "returned"
    /\ UNCHANGED <<call, raised, logger, store, store_requests, store_reply>>
    /\ UNCHANGED orchestration

NextVariants == Generate \/ ExtractTerms

SpecVariants == InitVariants /\ [][NextVariants]_vars

Generated == pc = "returned" /\ call.op = "generate_search_queries"

\* where v, compared in lowercase, first stands in candidates (0: nowhere)
FirstGenerated(candidates, v) ==
    IF \E i \in DOMAIN candidates : Lower(candidates[i]) = Lower(v)
    THEN CHOOSE i \in DOMAIN candidates :
            /\ Lower(candidates[i]) = Lower(v)
            /\ \A j \in 1..(i - 1) : Lower(candidates[j]) # Lower(v)
    ELSE 0

\* C13: generate_search_queries returns between 1 and 5 variants, the first
\* is the trimmed question, no two are equal when compared in lowercase, and
\* they stand in the order in which they were first generated.
C13_VariantsOrderedAndDistinct ==
    Generated
        => /\ Len(ret) \in 1..5
           /\ ret[1] = Strip(call.question)
           /\ \A i, j \in DOMAIN ret : i < j => Lower(ret[i]) # Lower(ret[j])
           /\ \A k \in DOMAIN ret :
                LET at == FirstGenerated(candidate_queries(call.question), ret[k])
                IN  /\ at > 0
                    /\ ret[k] = candidate_queries(call.question)[at]
           /\ \A k, l \in DOMAIN ret :
                k < l => FirstGenerated(candidate_queries(call.question), ret[k])
                         < FirstGenerated(candidate_queries(call.question), ret[l])

\* a question with surrounding spaces, of which a candidate was dropped for
\* differing from an earlier one only by case, and four variants remain
C13_Witness ==
    /\ Generated
    /\ call.question # Strip(call.question)
    /\ Len(ret) = 4
    /\ \E i, j \in DOMAIN candidate_queries(call.question) :
        /\ i < j
        /\ candidate_queries(call.question)[i] # candidate_queries(call.question)[j]
        /\ Lower(candidate_queries(call.question)[i])
            = Lower(candidate_queries(call.question)[j])

InUnitInterval(score) == score >= 0 /\ score <= Scale

\* C14: every relevance score and every confidence the core produces lies in
\* [0,1]: the scores of the merged candidates (search's scores and the
\* backstops'), the scores of the entries the entry points return, and the
\* confidence of the context calls.
C14_ScoresWithinUnitInterval ==
    /\ \A i \in DOMAIN all_results :
            InUnitInterval(all_results[i].relevance_score)
    /\ (pc = "returned" /\ "results" \in DOMAIN ret)
            => \A i \in DOMAIN ret.results :
                    InUnitInterval(ret.results[i].relevance_score)
    /\ (pc = "returned" /\ "sources" \in DOMAIN ret)
            => /\ InUnitInterval(ret.confidence)
               /\ \A i \in DOMAIN ret.sources :
                    InUnitInterval(ret.sources[i].relevance_score)

\* get_enhanced_context returned two sources whose review signals add up to
\* more than 1 for one of them, and a mean score that, boosted, exceeds 1
C14_Witness ==
    /\ ContextReturned
    /\ Len(ret.sources) = 2
    /\ \E i \in DOMAIN ret.sources :
        /\ review_signals(call.question, ret.sources[i]) > Scale
        /\ ret.sources[i].relevance_score = Scale
    /\ ((SumScores(ret.sources) \div 2) * 12) \div 10 > Scale
    /\ ret.confidence = Scale

\* C15: no step of a call, and no sequence of calls, changes the article
\* records of the corpus store.
C15_StoreOnlyRead == [][store' = store]_vars

\* a call has executed two searches and three title lookups, the last of
\* which found its article, and the article table is the initial one
C15_Witness ==
    /\ pc = "returned"
    /\ Len(store_requests) = 5
    /\ \A i \in DOMAIN store_requests : store_requests[i].verb = "SELECT"
    /\ store_reply.kind = "rows"
    /\ store_reply.rows # <<>>
    /\ store = SmallCorpus

\* C17: the exact-title backstop leaves every entry the merged candidates
\* already hold as it was (score and snippet), and adds the looked-up article
\* with relevance 1.0 only when its article_id is not held yet.
C17_ExactBackstopKeepsEntries ==
    [][(pc = "searching" /\ pc' = "key_terms")
        => /\ \A i \in DOMAIN all_results :
                /\ i \in DOMAIN all_results'
                /\ all_results'[i] = all_results[i]
           /\ total_articles_found' - total_articles_found
                = Len(all_results') - Len(all_results)]_vars

\* C18: a turn of the variant loop keeps every entry the merged candidates
\* hold, in place and unchanged, and adds only articles not held before: the
\* entry of an article is the one of the earliest variant that returned it.
C18_EarliestVariantWins ==
    [][(pc = "searching" /\ pc' = "searching")
        => /\ Len(all_results') >= Len(all_results)
           /\ SubSeq(all_results', 1, Len(all_results)) = all_results
           /\ \A i \in (Len(all_results) + 1)..Len(all_results') :
                all_results'[i].article_id \notin ArticleIds(all_results)]_vars

\* the second variant's search returned an article the first one had put in
\* the candidates, with another score, and the first entry is still held
C18_Witness ==
    /\ pc = "searching"
    /\ next_index = 3
    /\ Len(store_requests) = 2
    /\ store_reply.kind = "rows"
    /\ \E i \in DOMAIN store_reply.rows, j \in DOMAIN all_results :
        LET row == store_reply.rows[i]
            later == calculate_relevance_score(search_queries[2], row)
        IN  /\ all_results[j].article_id = row.article_id
            /\ later >= VariantMinScore
            /\ later # all_results[j].relevance_score
            /\ all_results[j].relevance_score
                    = calculate_relevance_score(search_queries[1], row)
    /\ Len(search(search_queries[2], limit, VariantMinScore,
                  store_reply).results) > 0

\* the key term looked up by the turn of the key-term loop that is next
KeyTerm == extract_key_terms(call.question)[next_index]

\* the entries a step appended to the merged candidates
AddedResults ==
    {all_results'[i] : i \in (Len(all_results) + 1)..Len(all_results')}

KeepsHeldResults ==
    /\ Len(all_results') >= Len(all_results)
    /\ SubSeq(all_results', 1, Len(all_results)) = all_results

\* 0.9
NineTenths == 9 * (Scale \div 10)

AddedWithKeyTermScore(article_id) ==
    \E result \in AddedResults :
        /\ result.article_id = article_id
        /\ result.relevance_score = NineTenths

\* C19 as stated: in a turn of the key-term loop, an article of the store
\* whose title is the key term is added to the merged candidates with
\* relevance 0.9 if and only if its article_id is not held yet, and the
\* entries held keep their score.
C19_TitledArticleAddedIffNew ==
    [][(pc = "key_terms" /\ pc' = "key_terms")
        => /\ KeepsHeldResults
           /\ \A i \in DOMAIN store :
                store[i].title = KeyTerm
                    => (AddedWithKeyTermScore(store[i].article_id)
                        <=> store[i].article_id \notin ArticleIds(all_results))
      ]_vars

\* C19, amended: in a turn of the key-term loop whose lookup the store answers
\* with a row that can be read (its categories are JSON or NULL), that article
\* is added with relevance 0.9 if and only if its article_id is not held yet;
\* a turn whose lookup fails, finds no row or finds a row that cannot be read
\* adds nothing; the entries held always keep their place, score and snippet.
C19_LookedUpArticleAddedIffNew ==
    [][(pc = "key_terms" /\ pc' = "key_terms")
        => /\ KeepsHeldResults
           /\ Len(all_results') <= Len(all_results) + 1
           /\ IF /\ store_reply'.kind = "rows"
                 /\ store_reply'.rows # <<>>
              THEN LET row == store_reply'.rows[1]
                   IN  /\ row.title = KeyTerm
                       /\ IF ParseCategories(row.categories).ok
                          THEN /\ AddedWithKeyTermScore(row.article_id)
                                    <=> row.article_id
                                            \notin ArticleIds(all_results)
                               /\ \A result \in AddedResults :
                                    result.article_id = row.article_id
                          ELSE AddedResults = {}
              ELSE AddedResults = {}]_vars

\* the lookup of a key term has added the article of that title, which no
\* variant had returned, with relevance 0.9
C19_Witness ==
    /\ pc = "key_terms"
    /\ next_index > 1
    /\ all_results # <<>>
    /\ all_results[Len(all_results)].relevance_score = NineTenths
    /\ all_results[Len(all_results)].title
            = extract_key_terms(call.question)[next_index - 1]
    /\ status_log[Len(status_log)].text = "Found key term match"

\* C20: every one of the first three important words of the question
\* (capitalized words and lowercase words of at least four characters, in
\* scan order) is among the variants generate_search_queries returns, up to
\* the case-blind removal of duplicates.
C20_FirstThreeWordsAreVariants ==
    Generated
        => LET words == FindImportantWords(call.question)
           IN  \A i \in 1..Min(3, Len(words)) :
                \E k \in DOMAIN ret : Lower(ret[k]) = Lower(words[i])

\* the call of search_with_multiple_queries has returned from line 234
SearchSucceeded == SearchReturned /\ "total_articles_searched" \in DOMAIN ret

\* the candidates the review loop was given: final_results[:limit]
Reviewed == Take(SortByScoreDesc(all_results), limit)

\* 0.05
OneTwentieth == Scale \div 20

DecisionEntries == {"Article deemed relevant", "Article not relevant to question"}

\* C22: for every reviewed candidate, kept or dropped, the status log holds
\* an entry for that decision which carries the candidate's reviewed score.
C22_DecisionLoggedWithScore ==
    SearchSucceeded
        => \A i \in DOMAIN Reviewed :
            \E k \in DOMAIN ret.status_log :
                LET entry == ret.status_log[k]
                IN  /\ entry.text \in DecisionEntries
                    /\ Len(entry.args) = 2
                    /\ entry.args[1] = Reviewed[i].title
                    /\ entry.args[2] = TwoDecimals(
                            assess_article_relevance(call.question, Reviewed[i]))

BackstopEntries ==
    {"Found exact title match", "Found key term match",
     "Exact match search failed", "Key term search failed"}

MatchEntries == {"Found exact title match", "Found key term match"}

\* a step of the exact-title backstop or a turn of the key-term loop
BackstopStep ==
    \/ pc = "searching" /\ pc' = "key_terms"
    \/ pc = "key_terms" /\ pc' = "key_terms"

\* the entries a step appended to the status log
AppendedEntries ==
    SubSeq(status_log', Len(status_log) + 1, Len(status_log'))

\* the entries of the merged candidates a step wrote
WrittenResults ==
    {all_results'[j] : j \in {i \in DOMAIN all_results' :
        i \notin DOMAIN all_results \/ all_results'[i] # all_results[i]}}

MatchEntriesFor(log, title) ==
    {k \in DOMAIN log : log[k].text \in MatchEntries /\ log[k].args = <<title>>}

\* C23: the status log returned holds, for each variant in generation order,
\* the entry of the query issued directly followed by the entry of its hit
\* count, all of them before any backstop entry; and each article a backstop
\* put in the merged candidates has exactly one backstop entry.
C23_StatusLogOrder ==
    /\ [](SearchSucceeded
            => /\ \A i \in DOMAIN search_queries :
                    /\ ret.status_log[2 * i].text
                            = "Searching Wikipedia with query"
                    /\ ret.status_log[2 * i].args = <<search_queries[i]>>
                    /\ ret.status_log[2 * i + 1].text
                            = "Found articles for query"
                    /\ Len(ret.status_log[2 * i + 1].args) = 2
                    /\ ret.status_log[2 * i + 1].args[2] = search_queries[i]
               /\ \A k \in DOMAIN ret.status_log :
                    ret.status_log[k].text \in BackstopEntries
                        => k > 2 * Len(search_queries) + 1
               /\ \A j \in DOMAIN all_results :
                    Cardinality(MatchEntriesFor(ret.status_log,
                                                all_results[j].title)) <= 1)
    /\ [][BackstopStep
            => /\ Len(status_log') >= Len(status_log)
               /\ SubSeq(status_log', 1, Len(status_log)) = status_log
               /\ \A result \in WrittenResults :
                    Cardinality(MatchEntriesFor(AppendedEntries,
                                                result.title)) = 1]_vars

\* two variants were searched and a key-term lookup then added an article
C23_Witness ==
    /\ SearchSucceeded
    /\ Len(search_queries) = 2
    /\ \E k \in DOMAIN ret.status_log :
        /\ ret.status_log[k].text = "Found key term match"
        /\ k = 6
    /\ \E j \in DOMAIN all_results : all_results[j].relevance_score = NineTenths

\* a step of the pipeline on whose statement the store failed
StoreFailedStep ==
    /\ pc \in {"searching", "key_terms"}
    /\ Len(store_requests') = Len(store_requests) + 1
    /\ store_reply'.kind = "error"

\* the variants search sends to the store: the ones that are not blank
SearchedVariants ==
    {i \in DOMAIN search_queries : Strip(search_queries[i]) # <<>>}

\* C24: a variant search or backstop lookup on which the store fails adds no
\* candidate and does not end the call: the loop goes on to the next variant
\* or lookup, every variant and every lookup has been sent to the store when
\* the call returns, and the candidates found are reviewed and returned.
C24_PipelineContinuesOnStoreFailure ==
    /\ [][StoreFailedStep
            => /\ all_results' = all_results
               /\ pc' \in {"searching", "key_terms"}
               /\ pc' = pc => next_index' = next_index + 1]_vars
    /\ [](SearchSucceeded
            => /\ Len(store_requests)
                    = Cardinality(SearchedVariants) + 1
                        + Len(extract_key_terms(call.question))
               /\ \A i \in DOMAIN Reviewed :
                    assess_article_relevance(call.question, Reviewed[i])
                            > OneTwentieth
                        => \E k \in DOMAIN ret.results :
                            ret.results[k].article_id = Reviewed[i].article_id)

\* the store failed on the first variant and on the exact-title lookup, and
\* the call returned an article that a later access found
C24_Witness ==
    /\ SearchSucceeded
    /\ Len(search_queries) = 2
    /\ Len(logger) = 1
    /\ logger[1].query = search_queries[1]
    /\ \E k \in DOMAIN ret.status_log :
        ret.status_log[k].text = "Exact match search failed"
    /\ ret.results # <<>>

EndsWith(s, t) ==
    /\ Len(s) >= Len(t)
    /\ SubSeq(s, Len(s) - Len(t) + 1, Len(s)) = t

\* the block of the article, full or truncated, stands in the text
HasBlock(text, article) ==
    Contains(text, <<"*","*">> \o article.title \o <<"*","*","\n">>)

Callers == {1, 2}

\* the frame of a call of search_with_multiple_queries after lines 112-118
start_frame(question) ==
    [search_queries |-> generate_search_queries(question),
     all_results |-> <<>>,
     total_articles_found |-> 0,
     status_log |-> <<StatusEntry("Generated search queries",
                        <<Len(generate_search_queries(question))>>)>>,
     requests |-> <<>>,
     records |-> <<>>]

\* lines 121-133: one turn of the variant loop on a frame
variant_turn(frame, query, result_limit, reply) ==
    LET done == search(query, result_limit, VariantMinScore, reply)
        merged == MergeResults(frame.all_results, done.results)
    IN  [frame EXCEPT
            !.status_log = @ \o
                <<StatusEntry("Searching Wikipedia with query", <<query>>),
                  StatusEntry("Found articles for query",
                              <<Len(done.results), query>>)>>,
            !.all_results = merged,
            !.total_articles_found = @ + Len(merged) - Len(frame.all_results),
            !.requests = done.requests,
            !.records = done.records]

\* lines 139-167 on a frame
exact_title_lookup(frame, question, reply) ==
    LET title == Strip(question)
        found == [frame EXCEPT
                    !.requests = <<TitleStatement(title)>>,
                    !.records = <<>>]
    IN  IF reply.kind = "error"
        THEN [found EXCEPT !.status_log =
                Append(@, StatusEntry("Exact match search failed", <<>>))]
        ELSE IF reply.rows = <<>> THEN found
        ELSE IF ~ParseCategories(reply.rows[1].categories).ok
        THEN [found EXCEPT !.status_log = @ \o
                <<StatusEntry("Found exact title match",
                              <<reply.rows[1].title>>),
                  StatusEntry("Exact match search failed", <<>>)>>]
        ELSE [found EXCEPT
                !.status_log = Append(@,
                    StatusEntry("Found exact title match",
                                <<reply.rows[1].title>>)),
                !.all_results = PutResult(@,
                    BackstopResult(reply.rows[1], ExactMatchScore)),
                !.total_articles_found = @ + 1]

\* lines 170-197: one turn of the key-term loop on a frame
key_term_turn(frame, term, reply) ==
    LET found == [frame EXCEPT
                    !.requests = <<TitleStatement(term)>>,
                    !.records = <<>>]
    IN  IF reply.kind = "error"
        THEN [found EXCEPT !.status_log =
                Append(@, StatusEntry("Key term search failed", <<term>>))]
        ELSE IF reply.rows = <<>>
                \/ reply.rows[1].article_id \in ArticleIds(frame.all_results)
        THEN found
        ELSE IF ~ParseCategories(reply.rows[1].categories).ok
        THEN [found EXCEPT !.status_log = @ \o
                <<StatusEntry("Found key term match", <<reply.rows[1].title>>),
                  StatusEntry("Key term search failed", <<term>>)>>]
        ELSE [found EXCEPT
                !.status_log = Append(@,
                    StatusEntry("Found key term match",
                                <<reply.rows[1].title>>)),
                !.all_results = Append(@,
                    BackstopResult(reply.rows[1], KeyTermScore)),
                !.total_articles_found = @ + 1]

\* the frame of caller p
FrameOf(p) ==
    [search_queries |-> search_queries[p],
     all_results |-> all_results[p],
     total_articles_found |-> total_articles_found[p],
     status_log |-> status_log[p],
     requests |-> <<>>,
     records |-> <<>>]

\* caller p goes on with frame, having sent its statements to the connection
\* and received reply
Proceed(p, frame, reply) ==
    /\ search_queries' = [search_queries EXCEPT ![p] = frame.search_queries]
    /\ all_results' = [all_results EXCEPT ![p] = frame.all_results]
    /\ total_articles_found' =
            [total_articles_found EXCEPT ![p] = frame.total_articles_found]
    /\ status_log' = [status_log EXCEPT ![p] = frame.status_log]
    /\ store_requests' = [store_requests EXCEPT ![p] = @ \o frame.requests]
    /\ logger' = [logger EXCEPT ![p] = @ \o frame.records]
    /\ store_reply' = IF frame.requests = <<>> THEN store_reply
                      ELSE [store_reply EXCEPT ![p] = Append(@, reply)]
    /\ store' = StoreAfterAll(store, frame.requests)

ConcurrentRanks == {-20}

ConcurrentLimit == 1

ConcurrentCalls ==
    {[op |-> "search_with_multiple_queries", question |-> q,
      limit |-> ConcurrentLimit] : q \in {<<"C","a","t">>}}
    \cup
    {[op |-> "get_context_for_query", query |-> <<"C","a","t">>,
      max_length |-> l, max_articles |-> 1] : l \in {20, 2000}}

InitConcurrent ==
    /\ pc = [p \in Callers |-> "start"]
    /\ call \in [Callers -> ConcurrentCalls]
    /\ ret = [p \in Callers |-> <<>>]
    /\ raised = [p \in Callers |-> FALSE]
    /\ logger = [p \in Callers |-> NoLog]
    /\ store = SmallCorpus
    /\ store_requests = [p \in Callers |-> <<>>]
    /\ store_reply = [p \in Callers |-> <<>>]
    /\ search_queries = [p \in Callers |-> <<>>]
    /\ next_index = [p \in Callers |-> 0]
    /\ all_results = [p \in Callers |-> <<>>]
    /\ total_articles_found = [p \in Callers |-> 0]
    /\ status_log = [p \in Callers |-> <<>>]

\* lines 112-118, by caller p
CallerGenerates(p) ==
    /\ pc[p] = "start"
    /\ call[p].op = "search_with_multiple_queries"
    /\ \E frame \in {start_frame(call[p].question)} :
        Proceed(p, frame, NoReply)
    /\ next_index' = [next_index EXCEPT ![p] = 1]
    /\ pc' = [pc EXCEPT ![p] = "searching"]
    /\ UNCHANGED <<call, ret, raised>>

\* one turn of the variant loop, were all_results one map of the engine
CallerSearchesVariant_shared_map(p) ==
    /\ pc[p] = "searching"
    /\ next_index[p] <= Len(search_queries[p])
    /\ \E reply \in FtsReplies(store, ConcurrentRanks, call[p].limit) :
        \E frame \in {variant_turn(FrameOf(p),
                        search_queries[p][next_index[p]],
                        call[p].limit, reply)} :
            /\ search_queries' = [search_queries EXCEPT ![p] = frame.search_queries]
            /\ all_results' = [q \in Callers |-> frame.all_results]
            /\ total_articles_found' =
                    [total_articles_found EXCEPT ![p] = frame.total_articles_found]
            /\ status_log' = [status_log EXCEPT ![p] = frame.status_log]
            /\ store_requests' = [store_requests EXCEPT ![p] = @ \o frame.requests]
            /\ logger' = [logger EXCEPT ![p] = @ \o frame.records]
            /\ store_reply' = IF frame.requests = <<>> THEN store_reply
                              ELSE [store_reply EXCEPT ![p] = Append(@, reply)]
            /\ store' = StoreAfterAll(store, frame.requests)
    /\ next_index' = [next_index EXCEPT ![p] = @ + 1]
    /\ UNCHANGED <<pc, call, ret, raised>>

\* one turn of the variant loop, by caller p
CallerSearchesVariant(p) ==
    /\ pc[p] = "searching"
    /\ next_index[p] <= Len(search_queries[p])
    /\ \E reply \in FtsReplies(store, ConcurrentRanks, call[p].limit) :
        \E frame \in {variant_turn(FrameOf(p),
                        search_queries[p][next_index[p]],
                        call[p].limit, reply)} :
            Proceed(p, frame, reply)
    /\ next_index' = [next_index EXCEPT ![p] = @ + 1]
    /\ UNCHANGED <<pc, call, ret, raised>>

\* the exact-title lookup, by caller p
CallerLooksUpTitle(p) ==
    /\ pc[p] = "searching"
    /\ next_index[p] > Len(search_queries[p])
    /\ \E reply \in TitleReplies(store, Strip(call[p].question)) :
        \E frame \in {exact_title_lookup(FrameOf(p), call[p].question,
                                         reply)} :
            Proceed(p, frame, reply)
    /\ next_index' = [next_index EXCEPT ![p] = 1]
    /\ pc' = [pc EXCEPT ![p] = "key_terms"]
    /\ UNCHANGED <<call, ret, raised>>

\* one turn of the key-term loop, by caller p
CallerLooksUpKeyTerm(p) ==
    /\ pc[p] = "key_terms"
    /\ next_index[p] <= Len(extract_key_terms(call[p].question))
    /\ \E term \in {extract_key_terms(call[p].question)[next_index[p]]} :
       \E reply \in TitleReplies(store, term) :
        \E frame \in {key_term_turn(FrameOf(p), term, reply)} :
            Proceed(p, frame, reply)
    /\ next_index' = [next_index EXCEPT ![p] = @ + 1]
    /\ UNCHANGED <<pc, call, ret, raised>>

\* lines 199-241, by caller p
CallerReviews(p) ==
    /\ pc[p] = "key_terms"
    /\ next_index[p] > Len(extract_key_terms(call[p].question))
    /\ \E result \in {reviewed_search_result(call[p].question, call[p].limit,
                        search_queries[p], all_results[p], status_log[p],
                        total_articles_found[p])} :
        /\ ret' = [ret EXCEPT ![p] = result]
        /\ status_log' = [status_log EXCEPT ![p] = result.status_log]
    /\ pc' = [pc EXCEPT ![p] = "returned"]
    /\ UNCHANGED <<call, raised, logger, store, store_requests, store_reply,
                   search_queries, next_index, all_results,
                   total_articles_found>>

\* get_context_for_query, by caller p
CallerGetsContext(p) ==
    /\ pc[p] = "start"
    /\ call[p].op = "get_context_for_query"
    /\ \E reply \in FtsReplies(store, ConcurrentRanks,
                               call[p].max_articles * 2) :
        \E done \in {get_context_for_query(call[p].query, call[p].max_length,
                                            call[p].max_articles, reply)} :
            /\ ret' = [ret EXCEPT ![p] = done.context]
            /\ logger' = [logger EXCEPT ![p] = @ \o done.records]
            /\ store_requests' =
                    [store_requests EXCEPT ![p] = @ \o done.requests]
            /\ store_reply' = [store_reply EXCEPT ![p] = Append(@, reply)]
            /\ store' = StoreAfterAll(store, done.requests)
    /\ pc' = [pc EXCEPT ![p] = "returned"]
    /\ UNCHANGED <<call, raised>>
    /\ UNCHANGED orchestration

NextConcurrent ==
    \E p \in Callers :
        \/ CallerGenerates(p)
        \/ CallerSearchesVariant(p)
        \/ CallerLooksUpTitle(p)
        \/ CallerLooksUpKeyTerm(p)
        \/ CallerReviews(p)
        \/ CallerGetsContext(p)

SpecConcurrent == InitConcurrent /\ [][NextConcurrent]_vars

RECURSIVE after_variants(_, _, _, _)
\* the variant loop from its i-th turn on, run on its own on the answers
\* given: the frame it ends with and the answers left
after_variants(frame, i, result_limit, replies) ==
    IF i > Len(frame.search_queries)
    THEN [frame |-> frame, replies |-> replies]
    ELSE LET query == frame.search_queries[i]
         IN  IF Strip(query) = <<>>
             THEN after_variants(
                    variant_turn(frame, query, result_limit, NoReply),
                    i + 1, result_limit, replies)
             ELSE after_variants(
                    variant_turn(frame, query, result_limit, replies[1]),
                    i + 1, result_limit, Tail(replies))

RECURSIVE after_key_terms(_, _, _)
\* the key-term loop run on its own on the answers given
after_key_terms(frame, terms, replies) ==
    IF terms = <<>> THEN frame
    ELSE after_key_terms(key_term_turn(frame, terms[1], replies[1]),
                         Tail(terms), Tail(replies))

\* search_with_multiple_queries run from its first line to its return with
\* no other call in progress, the store giving the answers listed
search_with_multiple_queries_alone(question, result_limit, replies) ==
    CHOOSE result \in
        {reviewed_search_result(question, result_limit,
            done.search_queries, done.all_results, done.status_log,
            done.total_articles_found) :
            done \in
                {after_key_terms(
                    exact_title_lookup(searched.frame, question,
                                       searched.replies[1]),
                    extract_key_terms(question),
                    Tail(searched.replies)) :
                    searched \in
                        {after_variants(start_frame(question), 1,
                                        result_limit, replies)}}} : TRUE

\* what the call of a caller returns when it runs alone on the answers listed
ResultAlone(c, replies) ==
    IF c.op = "search_with_multiple_queries"
    THEN search_with_multiple_queries_alone(c.question, c.limit, replies)
    ELSE get_context_for_query(c.query, c.max_length, c.max_articles,
                               replies[1]).context

\* what belongs to the call of caller p
CallOf(p) ==
    <<pc[p], call[p], ret[p], search_queries[p], next_index[p],
      all_results[p], total_articles_found[p], status_log[p],
      store_reply[p]>>

\* C26: of two calls in progress on one engine, in any interleaving of their
\* steps, a step of one leaves the candidates, the status log and every
\* other part of the other call as they were, and each call returns what it
\* returns when it runs alone on the same answers of the store.
C26_CallsDoNotInterfere ==
    /\ [][\A p, q \in Callers :
            (p # q /\ CallOf(p)' # CallOf(p)) => CallOf(q)' = CallOf(q)]_vars
    /\ [](\A p \in Callers :
            pc[p] = "returned"
                => ret[p] = ResultAlone(call[p], store_reply[p]))

\* two calls for the same question are in progress, each holding its own
\* entry, with its own score, for the same article
C26_Witness ==
    /\ pc[1] = "key_terms"
    /\ pc[2] = "key_terms"
    /\ call[1] = call[2]
    /\ all_results[1] # <<>>
    /\ all_results[2] # <<>>
    /\ all_results[1][1].article_id = all_results[2][1].article_id
    /\ all_results[1][1].relevance_score # all_results[2][1].relevance_score

\* the distinct words of at least three characters of a text, in lowercase
WordsOfThree(text) == Range(FindAll(Lower(text), "word", "word", 3))

\* min(1, 0.5 x mean relevance + 0.3 x min(count / 3, 1) + 0.2 x coverage)
\* over the articles included, coverage counting the question words of at
\* least three characters
StatedConfidence(included, question) ==
    IF included = <<>> THEN 0
    ELSE LET mean == SumScores(included) \div Len(included)
             count_factor == Min((Len(included) * Scale) \div 3, Scale)
             question_words == WordsOfThree(question)
             covered ==
                {word \in question_words :
                    \E i \in DOMAIN included :
                        word \in WordsOfThree(included[i].title \o <<" ">>
                                              \o included[i].summary)}
             coverage ==
                IF question_words = {} THEN 0
                ELSE (Cardinality(covered) * Scale)
                        \div Cardinality(question_words)
         IN  Min((mean * 5) \div 10 + (count_factor * 3) \div 10
                    + (coverage * 2) \div 10, Scale)

\* C27: for a non-empty selection the confidence returned is the stated
\* combination, taken over the articles packed into the context.
C27_ConfidenceAsStated ==
    (pc = "returned" /\ ret.sources # <<>>)
        => LET Included(article) == HasBlock(ret.context_text, article)
           IN  ret.confidence_score
                = StatedConfidence(SelectSeq(ret.sources, Included),
                                   call.query)

\* the same with every selected article taken as included
C27_ConfidenceOverSelection ==
    (pc = "returned" /\ ret.sources # <<>>)
        => ret.confidence_score = StatedConfidence(ret.sources, call.query)

SearchCallReturned == pc = "returned" /\ call.op = "search"

\* the rows the store gave to the statement of the call
BackendHits ==
    IF store_requests # <<>> /\ store_reply.kind = "rows"
    THEN store_reply.rows ELSE <<>>

WithinLimitAndAboveMinimum ==
    /\ Len(ret) <= call.limit
    /\ \A k \in DOMAIN ret : ret[k].relevance_score >= call.min_score

\* the hits whose score is at least min_score, in the order of the store
PassingHits ==
    LET Passes(row) ==
            calculate_relevance_score(call.query, row) >= call.min_score
    IN  SelectSeq(BackendHits, Passes)

\* C28 as stated: search returns at most limit candidates, each with a
\* relevance_score of at least min_score, and every hit of the store whose
\* score is at least min_score is returned.
C28_EveryPassingHitReturned ==
    SearchCallReturned
        => /\ WithinLimitAndAboveMinimum
           /\ \A i \in DOMAIN PassingHits :
                \E k \in DOMAIN ret :
                    ret[k].article_id = PassingHits[i].article_id

\* C28, amended: search returns at most limit candidates, each with a
\* relevance_score of at least min_score (a score equal to min_score is
\* kept); unless it logged a failure, it returns exactly the hits of the
\* store whose score is at least min_score, in the order of the store; when
\* the store failed or a passing hit carries categories that are not JSON,
\* it returns nothing, the other passing hits included.
C28_PassingHitsReturnedUnlessFailed ==
    SearchCallReturned
        => /\ WithinLimitAndAboveMinimum
           /\ IF logger = <<>>
              THEN /\ Len(ret) = Len(PassingHits)
                   /\ \A k \in DOMAIN ret :
                        /\ ret[k].article_id = PassingHits[k].article_id
                        /\ ret[k].relevance_score
                            = calculate_relevance_score(call.query,
                                                        PassingHits[k])
              ELSE ret = <<>>

\* a hit whose score equals min_score was returned and one below was not
C28_Witness ==
    /\ SearchCallReturned
    /\ Len(BackendHits) = 2
    /\ Len(ret) = 1
    /\ ret[1].relevance_score = call.min_score
    /\ logger = <<>>

\* C29: the context get_enhanced_context returns has at most max_length
\* characters, whether it returns from its last line or from one of its
\* error paths.
C29_EnhancedContextWithinBudget ==
    ContextReturned => Len(ret.context) <= call.max_length

\* a context of summaries longer than max_length was cut to max_length
C29_Witness ==
    /\ ContextReturned
    /\ call.max_length > 0
    /\ ret.sources # <<>>
    /\ Len(ret.context) = call.max_length
    /\ \E i \in DOMAIN ret.sources :
        Len(ret.sources[i].summary) > call.max_length

\* get_enhanced_context returned from an error path, with an empty context
C29_ErrorPathReached ==
    ContextReturned /\ "error" \in DOMAIN ret /\ ret.context = <<>>

\* C30: on a successful return of search_with_multiple_queries,
\* total_articles_searched is the number of distinct articles among the
\* merged candidates, and at most min(limit, total_articles_searched)
\* results are returned.
C30_TotalCountsDistinctArticles ==
    SearchSucceeded
        => /\ ret.total_articles_searched
                = Cardinality(ArticleIds(all_results))
           /\ Len(ret.results) <= Min(call.limit, ret.total_articles_searched)

====
